---- MODULE Spec2Model ----
(***************************************************************************)
(* A model of tomclient's OAuth2/PKCE authentication subsystem:            *)
(*   auth/oauth.go   the login flow (Authenticate, StartCallbackServer,    *)
(*                   ExchangeCodeForToken) with its callback listener,     *)
(*   auth/token.go   the token store (SaveToken, LoadToken, IsValid),      *)
(*   the jwt dispatchers (CLIAuthProvider.AddAuth, Client.setAuthHeader),  *)
(*   auth/config.go  LoadConfig, and the bulk commands' worker pool.       *)
(*                                                                         *)
(* The specifications share the variables (SpecLoginFair and               *)
(* SpecLoginFairHandlers are SpecLogin with the fairness the goroutine     *)
(* scheduler gives; SpecLoginOrAuth is a login or an AddAuth call):        *)
(*   SpecLogin   one Authenticate invocation with concurrent callbacks,    *)
(*   SpecCmd     the auth login command: Validate, then Authenticate,      *)
(*   SpecAuth    one AddAuth call in jwt mode,                             *)
(*   SpecStore   processes saving and loading the token file concurrently, *)
(*   SpecToken   one process saving to and loading from the token file,    *)
(*   SpecBulk    a bulk command working through a devices file,            *)
(*   SpecCalls   the library's pure functions, called on their own.        *)
(* Variables a specification does not use keep their initial value.        *)
(***************************************************************************)
EXTENDS Integers, Sequences, FiniteSets, TLC

\* ------------------------------------------------------------------ bounds

\* Operations the single process of SpecToken performs.
MaxOps == 2

\* Callback requests that may reach the listener during one login.
MaxRequests == 3

\* The most devices a devices file names, and the most concurrent workers a
\* bulk command is given.
MaxDevices == 3
MaxConcurrency == 2

\* How far the clock may advance while one SaveToken call runs.
MaxDrift == 1

\* ------------------------------------------------------------ the clock and
\* the token data

\* time.Time{}: the zero time.
ZeroTime == 0

\* The 60 second safety buffer of IsValid.
ExpiryBuffer == 60

\* A JWT string is represented by its "."-separated segments; a segment says
\* whether it base64url-decodes, whether the decoded bytes are JSON, and the
\* exp claim of that JSON (0 when absent).
Seg(txt, b64, json, exp) == [txt |-> txt, b64 |-> b64, json |-> json, exp |-> exp]

\* strings.Split("", ".") is [""]: one empty segment, which decodes to no
\* bytes, and no bytes are not JSON.
EmptyString == << Seg("", TRUE, FALSE, 0) >>

\* An opaque, dot-free token string such as "xyz".
Opaque(txt) == << Seg(txt, TRUE, FALSE, 0) >>

\* header.payload.signature with an exp claim.
JWT(exp) == << Seg("hdr", TRUE, TRUE, 0), Seg("claims", TRUE, TRUE, exp), Seg("sig", TRUE, FALSE, 0) >>

\* parseJWTExp: (exp, ok).
parseJWTExp(jwt) ==
    IF Len(jwt) < 2 THEN [exp |-> ZeroTime, ok |-> FALSE]
    ELSE IF ~jwt[2].b64 THEN [exp |-> ZeroTime, ok |-> FALSE]
    ELSE IF ~jwt[2].json THEN [exp |-> ZeroTime, ok |-> FALSE]
    ELSE IF jwt[2].exp = 0 THEN [exp |-> ZeroTime, ok |-> FALSE]
    ELSE [exp |-> jwt[2].exp, ok |-> TRUE]

\* An IsValid without the 60 second buffer.
IsValidNoBuffer(t, clock) ==
    IF t.IDToken # EmptyString
    THEN LET p == parseJWTExp(t.IDToken)
         IN  IF p.ok THEN clock < p.exp ELSE FALSE
    ELSE clock < t.ExpiresAt

\* An IsValid that falls back to the stored expiry when the exp claim of the
\* ID token does not decode (fail open).
IsValidFailOpen(t, clock) ==
    IF t.IDToken # EmptyString /\ parseJWTExp(t.IDToken).ok
    THEN clock < parseJWTExp(t.IDToken).exp - ExpiryBuffer
    ELSE clock < t.ExpiresAt - ExpiryBuffer

\* StoredToken.IsValid at clock value t.
IsValid(t, clock) ==
    IF t.IDToken # EmptyString
    THEN LET p == parseJWTExp(t.IDToken)
         IN  IF p.ok THEN clock < p.exp - ExpiryBuffer ELSE FALSE
    ELSE clock < t.ExpiresAt - ExpiryBuffer

\* StoredToken.GetToken.
GetToken(t) == t.IDToken

\* The zero StoredToken (var token StoredToken).
ZeroStoredToken ==
    [AccessToken |-> "", IDToken |-> EmptyString, TokenType |-> "",
     ExpiresIn |-> 0, ObtainedAt |-> ZeroTime, ExpiresAt |-> ZeroTime,
     RefreshToken |-> "", RefreshExpiresIn |-> 0,
     RefreshExpiresAt |-> ZeroTime, Provider |-> ""]

\* A TokenResponse.
TokenResponse(access, id, expiresIn, refresh, rtei, rei) ==
    [AccessToken |-> access, IDToken |-> id, TokenType |-> "Bearer",
     ExpiresIn |-> expiresIn, RefreshToken |-> refresh,
     RefreshTokenExpiresIn |-> rtei, RefreshExpiresIn |-> rei]

\* ---------------------------------------------------------- the token file

\* One cell of the file: a delimiter or one "key": value member.
Cell(k, s, n, j) == [k |-> k, s |-> s, n |-> n, j |-> j]
OpenBrace == Cell("{", "", 0, EmptyString)
CloseBrace == Cell("}", "", 0, EmptyString)
StrCell(k, s) == Cell(k, s, 0, EmptyString)
IntCell(k, n) == Cell(k, "", n, EmptyString)
JwtCell(k, j) == Cell(k, "", 0, j)

\* json.MarshalIndent(stored): the omitempty members are left out when zero
\* (refresh_token, refresh_expires_in, provider); refresh_expires_at is a
\* struct, which omitempty never leaves out.
Marshal(t) ==
    << OpenBrace,
       StrCell("access_token", t.AccessToken),
       JwtCell("id_token", t.IDToken),
       StrCell("token_type", t.TokenType),
       IntCell("expires_in", t.ExpiresIn),
       IntCell("obtained_at", t.ObtainedAt),
       IntCell("expires_at", t.ExpiresAt) >>
    \o (IF t.RefreshToken # "" THEN << StrCell("refresh_token", t.RefreshToken) >> ELSE << >>)
    \o (IF t.RefreshExpiresIn # 0 THEN << IntCell("refresh_expires_in", t.RefreshExpiresIn) >> ELSE << >>)
    \o << IntCell("refresh_expires_at", t.RefreshExpiresAt) >>
    \o (IF t.Provider # "" THEN << StrCell("provider", t.Provider) >> ELSE << >>)
    \o << CloseBrace >>

\* The bytes are one JSON object: they open with a brace, close with one and
\* hold no brace in between.
WellFormed(data) ==
    /\ Len(data) >= 2
    /\ data[1] = OpenBrace
    /\ data[Len(data)] = CloseBrace
    /\ \A i \in 2..(Len(data) - 1) : data[i].k \notin {"{", "}"}

HasKey(data, key) == \E i \in 1..Len(data) : data[i].k = key

Member(data, key) == data[CHOOSE i \in 1..Len(data) : data[i].k = key]

\* json.Unmarshal(data, &token): members absent from the bytes keep their
\* zero value.
Unmarshal(data) ==
    IF ~WellFormed(data) THEN [ok |-> FALSE, token |-> ZeroStoredToken]
    ELSE [ok |-> TRUE,
          token |->
            [AccessToken |-> IF HasKey(data, "access_token") THEN Member(data, "access_token").s ELSE "",
             IDToken |-> IF HasKey(data, "id_token") THEN Member(data, "id_token").j ELSE EmptyString,
             TokenType |-> IF HasKey(data, "token_type") THEN Member(data, "token_type").s ELSE "",
             ExpiresIn |-> IF HasKey(data, "expires_in") THEN Member(data, "expires_in").n ELSE 0,
             ObtainedAt |-> IF HasKey(data, "obtained_at") THEN Member(data, "obtained_at").n ELSE ZeroTime,
             ExpiresAt |-> IF HasKey(data, "expires_at") THEN Member(data, "expires_at").n ELSE ZeroTime,
             RefreshToken |-> IF HasKey(data, "refresh_token") THEN Member(data, "refresh_token").s ELSE "",
             RefreshExpiresIn |-> IF HasKey(data, "refresh_expires_in") THEN Member(data, "refresh_expires_in").n ELSE 0,
             RefreshExpiresAt |-> IF HasKey(data, "refresh_expires_at") THEN Member(data, "refresh_expires_at").n ELSE ZeroTime,
             Provider |-> IF HasKey(data, "provider") THEN Member(data, "provider").s ELSE ""]]

\* The token file: absent, or present with its bytes.
NoFile == [exists |-> FALSE, data |-> << >>]
FileOf(data) == [exists |-> TRUE, data |-> data]

\* os.WriteFile opens with O_CREATE|O_TRUNC ...
Truncate(f) == FileOf(<< >>)

\* ... and then writes the bytes at offset 0, over whatever the file holds by
\* then.
WriteAt0(f, data) ==
    FileOf(data \o SubSeq(f.data, Len(data) + 1, Len(f.data)))

\* LoadToken on the file as it is: (token, err).
LoadToken(f) ==
    IF ~f.exists THEN [err |-> "not authenticated", token |-> ZeroStoredToken]
    ELSE LET u == Unmarshal(f.data)
         IN  IF u.ok THEN [err |-> "", token |-> u.token]
             ELSE [err |-> "failed to parse token file", token |-> ZeroStoredToken]

\* The refresh lifetime SaveToken reads from a response (token.go:66-69).
RefreshLifetime(response) ==
    IF response.RefreshTokenExpiresIn = 0 THEN response.RefreshExpiresIn
    ELSE response.RefreshTokenExpiresIn

\* A SaveToken that stores the response's refresh token as it is, without
\* the carry-over of token.go:52-63.
StoredOfNoCarry(token, existing, provider, t1, t2, t3) ==
    LET refreshExpiresIn == IF token.RefreshTokenExpiresIn = 0 THEN token.RefreshExpiresIn
                            ELSE token.RefreshTokenExpiresIn
    IN  [AccessToken |-> token.AccessToken, IDToken |-> token.IDToken,
         TokenType |-> token.TokenType, ExpiresIn |-> token.ExpiresIn,
         ObtainedAt |-> t2, ExpiresAt |-> t3 + token.ExpiresIn,
         RefreshToken |-> token.RefreshToken, RefreshExpiresIn |-> refreshExpiresIn,
         RefreshExpiresAt |-> IF refreshExpiresIn > 0 THEN t1 + refreshExpiresIn ELSE ZeroTime,
         Provider |-> provider]

\* A SaveToken that carries the stored refresh expiry over whenever the
\* response names no positive lifetime, whichever refresh token it stores.
StoredOfCarryAny(token, existing, provider, t1, t2, t3) ==
    LET existingRefresh == IF existing.err = "" THEN existing.token.RefreshToken ELSE ""
        existingRefreshExpiresAt == IF existing.err = "" THEN existing.token.RefreshExpiresAt ELSE ZeroTime
        refresh == IF token.RefreshToken = "" THEN existingRefresh ELSE token.RefreshToken
        refreshExpiresIn == IF token.RefreshTokenExpiresIn = 0 THEN token.RefreshExpiresIn
                            ELSE token.RefreshTokenExpiresIn
        refreshExpiresAt == IF refreshExpiresIn > 0 THEN t1 + refreshExpiresIn
                            ELSE existingRefreshExpiresAt
    IN  [AccessToken |-> token.AccessToken, IDToken |-> token.IDToken,
         TokenType |-> token.TokenType, ExpiresIn |-> token.ExpiresIn,
         ObtainedAt |-> t2, ExpiresAt |-> t3 + token.ExpiresIn,
         RefreshToken |-> refresh, RefreshExpiresIn |-> refreshExpiresIn,
         RefreshExpiresAt |-> refreshExpiresAt, Provider |-> provider]

\* The record SaveToken builds from the response, from what its LoadToken
\* returned, and from its three readings of the clock (t1 <= t2 <= t3).
StoredOf(token, existing, provider, t1, t2, t3) ==
    LET existingRefresh == IF existing.err = "" THEN existing.token.RefreshToken ELSE ""
        existingRefreshExpiresAt == IF existing.err = "" THEN existing.token.RefreshExpiresAt ELSE ZeroTime
        refresh == IF token.RefreshToken = "" THEN existingRefresh ELSE token.RefreshToken
        refreshExpiresIn == IF token.RefreshTokenExpiresIn = 0 THEN token.RefreshExpiresIn
                            ELSE token.RefreshTokenExpiresIn
        refreshExpiresAt == IF refreshExpiresIn > 0 THEN t1 + refreshExpiresIn
                            ELSE IF refresh # "" /\ refresh = existingRefresh THEN existingRefreshExpiresAt
                            ELSE ZeroTime
    IN  [AccessToken |-> token.AccessToken, IDToken |-> token.IDToken,
         TokenType |-> token.TokenType, ExpiresIn |-> token.ExpiresIn,
         ObtainedAt |-> t2, ExpiresAt |-> t3 + token.ExpiresIn,
         RefreshToken |-> refresh, RefreshExpiresIn |-> refreshExpiresIn,
         RefreshExpiresAt |-> refreshExpiresAt, Provider |-> provider]

\* --------------------------------------------- the tomapi token loader

\* tomapi's loadStoredToken (token_loader.go:28-43): its storedToken has the
\* six members access_token ... expires_at, the others are ignored.
loadStoredToken(f) ==
    IF ~f.exists THEN [err |-> "not authenticated", token |-> ZeroStoredToken]
    ELSE LET u == Unmarshal(f.data)
         IN  IF u.ok
             THEN [err |-> "",
                   token |-> [u.token EXCEPT !.RefreshToken = "", !.RefreshExpiresIn = 0,
                                             !.RefreshExpiresAt = ZeroTime, !.Provider = ""]]
             ELSE [err |-> "failed to parse token file", token |-> ZeroStoredToken]

\* tomapi's storedToken.IsValid (token_loader.go:45-47).
storedToken_IsValid(t, clock) == clock < t.ExpiresAt - ExpiryBuffer

\* tomapi's storedToken.GetToken (token_loader.go:49-54): the access token
\* if there is one, else the ID token; the credential is given as the
\* segments of the string.
storedToken_GetToken(t) ==
    IF t.AccessToken # "" THEN Opaque(t.AccessToken) ELSE t.IDToken

\* CLIAuthProvider.loadJWTToken on a stored record that needs no refresh
\* (part_002:47-60): (credential, err).
loadJWTTokenStored(f, clock) ==
    LET t == LoadToken(f)
    IN  IF t.err # "" THEN [err |-> "failed to load token", token |-> EmptyString]
        ELSE IF t.token.IDToken = EmptyString
        THEN [err |-> "no id_token present", token |-> EmptyString]
        ELSE IF IsValid(t.token, clock) THEN [err |-> "", token |-> t.token.IDToken]
        ELSE [err |-> "token expired", token |-> EmptyString]

\* -------------------------------------------------- the provider strategies

\* url.Values with one value per key: a set of <<key, value>> pairs.
OIDCProvider == [name |-> "oidc"]
MicrosoftProvider == [name |-> "microsoft"]
GoogleProvider == [name |-> "google", UseRefreshToken |-> FALSE]
NoProvider == [name |-> ""]

\* providers.GetProvider: (provider, err).
GetProvider(name) ==
    IF name \in {"oidc", ""} THEN [err |-> "", provider |-> OIDCProvider]
    ELSE IF name = "google" THEN [err |-> "", provider |-> GoogleProvider]
    ELSE IF name = "microsoft" THEN [err |-> "", provider |-> MicrosoftProvider]
    ELSE [err |-> "unknown OAuth provider", provider |-> NoProvider]

\* Provider.RequiresClientSecret.
RequiresClientSecret(p) == p.name = "google"

\* A BuildTokenRequest that sends client_secret for every provider, empty or
\* not.
BuildTokenRequestSecretAlways(p, code, verifier, clientID, clientSecret, redirectURI) ==
    { <<"grant_type", "authorization_code">>, <<"code", code>>,
      <<"client_id", clientID>>, <<"client_secret", clientSecret>>,
      <<"redirect_uri", redirectURI>>, <<"code_verifier", verifier>> }

\* Provider.BuildTokenRequest of the three strategies.
BuildTokenRequest(p, code, verifier, clientID, clientSecret, redirectURI) ==
    IF p.name = "google"
    THEN { <<"grant_type", "authorization_code">>, <<"code", code>>,
           <<"client_id", clientID>>, <<"client_secret", clientSecret>>,
           <<"redirect_uri", redirectURI>>, <<"code_verifier", verifier>> }
         \cup (IF p.UseRefreshToken
               THEN { <<"access_type", "offline">>, <<"prompt", "consent">> }
               ELSE {})
    ELSE { <<"grant_type", "authorization_code">>, <<"code", code>>,
           <<"client_id", clientID>>,
           <<"redirect_uri", redirectURI>>, <<"code_verifier", verifier>> }
         \cup (IF clientSecret # "" THEN { <<"client_secret", clientSecret>> } ELSE {})

\* Provider.BuildRefreshRequest of the three strategies.
BuildRefreshRequest(p, refreshToken, clientID, clientSecret) ==
    IF p.name = "google"
    THEN { <<"grant_type", "refresh_token">>, <<"refresh_token", refreshToken>>,
           <<"client_id", clientID>>, <<"client_secret", clientSecret>> }
    ELSE { <<"grant_type", "refresh_token">>, <<"refresh_token", refreshToken>>,
           <<"client_id", clientID>> }
         \cup (IF clientSecret # "" THEN { <<"client_secret", clientSecret>> } ELSE {})

\* -------------------------------------------------- the authorization request

\* AuthURLParams of the strategies: Google's returns access_type and prompt
\* when its UseRefreshToken is set, the others return no values.
AuthURLParams(p) ==
    IF p.name = "google" /\ p.UseRefreshToken
    THEN { <<"access_type", "offline">>, <<"prompt", "consent">> }
    ELSE {}

\* GenerateCodeChallenge: the base64url text of the SHA-256 digest of the
\* verifier, a value that is not the verifier and that differs for different
\* verifiers.
GenerateCodeChallenge(verifier) == << "S256", verifier >>

\* fmt.Sprintf("http://localhost:%d/callback", port).
RedirectURI(port) == << "http://localhost:", port, "/callback" >>

\* The OAuthFlow that NewOAuthFlow returns for a verifier and a state it has
\* drawn and a discovery document it has fetched.
OAuthFlow(cfg, verifier, state, discovery) ==
    [Config |-> cfg, CodeVerifier |-> verifier, State |-> state,
     Discovery |-> discovery, Provider |-> GetProvider(cfg.OAuthProvider).provider]

\* OAuthFlow.GetAuthURL: the endpoint and the query (params.Encode() writes
\* the pairs sorted by key and escaped; the set of pairs is what it encodes).
GetAuthURL(f) ==
    [endpoint |-> f.Discovery.AuthorizationEndpoint,
     query |-> { <<"response_type", "code">>,
                 <<"client_id", f.Config.OAuthClientID>>,
                 <<"redirect_uri", RedirectURI(f.Config.OAuthRedirectPort)>>,
                 <<"code_challenge", GenerateCodeChallenge(f.CodeVerifier)>>,
                 <<"code_challenge_method", "S256">>,
                 <<"scope", f.Config.OAuthScopes>>,
                 <<"state", f.State>> }]

\* An ExchangeCodeForToken that sends the redirect URI of the default port.
TokenRequestOfDefaultPort(f, code) ==
    BuildTokenRequest(f.Provider, code, f.CodeVerifier, f.Config.OAuthClientID,
                      f.Config.OAuthClientSecret, RedirectURI(8899))

\* The form ExchangeCodeForToken posts to the token endpoint for a code.
TokenRequestOf(f, code) ==
    BuildTokenRequest(f.Provider, code, f.CodeVerifier, f.Config.OAuthClientID,
                      f.Config.OAuthClientSecret, RedirectURI(f.Config.OAuthRedirectPort))

\* ------------------------------------------------------------ the variables

VARIABLES
    now,        \* the wall clock, in seconds
    file,       \* token.json in the config directory
    config,     \* the Config the operation runs with
    \* --- one Authenticate invocation (auth/oauth.go)
    pc,         \* Authenticate's position
    discoveryResp, \* the discovery URL's answer to NewOAuthFlow's http.Get
    flow,       \* the OAuthFlow session
    codeChan, errChan, stateChan,  \* StartCallbackServer's channels (capacity 1)
    srv,        \* the http.Server: shutting down? listener bound?
    listener,   \* the goroutine running srv.ListenAndServe
    handler,    \* the /callback handler goroutines, one per request
    code,       \* the code the select received, and the request it came from
    receivedState, \* the state received after it, and the request it came from
    resp,       \* the token endpoint's answer to the exchange
    ret,        \* what StartCallbackServer returns: (code, err)
    token,      \* the TokenResponse of the exchange
    authErr,    \* the error Authenticate returns ("" while running or on success)
    calls,      \* how often each step of the attempt ran
    wr, rd,     \* sends completed on and receives from each channel
    \* --- one AddAuth call in jwt mode (CLIAuthProvider, tomapi Client)
    impl,       \* which dispatcher runs: "cli" or "client"
    authPc,     \* AddAuth's position
    refreshResponse, \* what RefreshAccessToken returned
    request,    \* the outgoing request's Authorization header
    addAuthErr, \* the error AddAuth returns
    refreshCalls,    \* how often RefreshAccessToken was called
    \* --- processes working on the token file
    proc,       \* the SaveToken call of each process
    observed,   \* what the latest LoadToken read
    order,      \* the processes in the order their SaveToken returned
    last,       \* the latest operation of the single process of SpecToken
    \* --- the library's functions, called on their own
    call,       \* the latest call: the function, its arguments, its results
    \* --- the bulk collection commands
    bulk        \* the command's main goroutine, its workers, semaphore and wait group

loginVars == << pc, discoveryResp, flow, codeChan, errChan, stateChan, srv, listener, handler,
                code, receivedState, resp, ret, token, authErr, calls, wr, rd >>

authVars == << impl, authPc, refreshResponse, request, addAuthErr, refreshCalls >>

storeVars == << proc, observed, order, last >>

vars == << now, file, config, loginVars, authVars, storeVars, call, bulk >>

\* The bearer credential of a request that carries no Authorization header.
NoRequest == [set |-> FALSE, bearer |-> EmptyString]

InitAuthVars ==
    /\ impl = "cli"
    /\ authPc = "idle"
    /\ refreshResponse = TokenResponse("", EmptyString, 0, "", 0, 0)
    /\ request = NoRequest
    /\ addAuthErr = ""
    /\ refreshCalls = 0

\* The processes that save concurrently.
Procs == {1, 2}

\* A saving process: where it is in SaveToken, the response it was called
\* with, the file it loaded, the clock readings it took and the bytes it
\* marshalled.
IdleProc ==
    [pc |-> "idle", response |-> TokenResponse("", EmptyString, 0, "", 0, 0),
     before |-> NoFile, clock |-> << 0, 0, 0 >>, data |-> << >>]
\* The latest operation: what it was called with, the file and the clock it
\* found (before, start), how it ended, and the clock at the return of the
\* SaveToken that wrote the record the file holds (saved, 0 when there is none).
NoOp == [op |-> "none", response |-> TokenResponse("", EmptyString, 0, "", 0, 0),
         before |-> NoFile, start |-> 0, outcome |-> "", saved |-> 0, n |-> 0]

InitStoreVars ==
    /\ proc = [p \in Procs |-> IdleProc]
    /\ observed = [seen |-> FALSE, file |-> NoFile]
    /\ order = << >>
    /\ last = NoOp

\* No function has been called.
NoCall == [fn |-> "none"]

InitCallVars == call = NoCall

\* No bulk command runs.
NoBulk == [cmd |-> "none"]

InitBulkVars == bulk = NoBulk

\* --------------------------------------------------------- the login flow

\* The CSRF state generateState draws for the session, and a foreign one.
SessionState == "s1"
ForeignState == "s0"

\* The query strings a /callback request may carry.
Queries ==
    { [code |-> "",     state |-> SessionState, error |-> "access_denied"],
      [code |-> "code", state |-> SessionState, error |-> "access_denied"],
      [code |-> "",     state |-> SessionState, error |-> ""],
      [code |-> "code", state |-> SessionState, error |-> ""],
      [code |-> "code", state |-> ForeignState, error |-> ""] }

NoQuery == [code |-> "", state |-> "", error |-> ""]

\* What the discovery URL may answer: a transport error, or a status with a
\* body that parses or not and names the endpoints or not.
DiscoveryResponses ==
    { [transport |-> FALSE, status |-> 0,   parses |-> FALSE, AuthorizationEndpoint |-> "",     TokenEndpoint |-> ""],
      [transport |-> TRUE,  status |-> 404, parses |-> TRUE,  AuthorizationEndpoint |-> "auth", TokenEndpoint |-> "token"],
      [transport |-> TRUE,  status |-> 200, parses |-> FALSE, AuthorizationEndpoint |-> "",     TokenEndpoint |-> ""],
      [transport |-> TRUE,  status |-> 200, parses |-> TRUE,  AuthorizationEndpoint |-> "",     TokenEndpoint |-> "token"],
      [transport |-> TRUE,  status |-> 200, parses |-> TRUE,  AuthorizationEndpoint |-> "auth", TokenEndpoint |-> ""],
      [transport |-> TRUE,  status |-> 200, parses |-> TRUE,  AuthorizationEndpoint |-> "auth", TokenEndpoint |-> "token"] }

NoDiscoveryResponse ==
    [transport |-> FALSE, status |-> 0, parses |-> FALSE, AuthorizationEndpoint |-> "", TokenEndpoint |-> ""]

NoDiscovery == [AuthorizationEndpoint |-> "", TokenEndpoint |-> ""]

\* A discoverOIDCEndpoints without the check for the two endpoints
\* (oauth.go:51-53 left out).
discoverOIDCEndpointsUnchecked(r) ==
    IF ~r.transport
    THEN [err |-> "failed to fetch OIDC discovery document", discovery |-> NoDiscovery]
    ELSE IF r.status # 200
    THEN [err |-> "OIDC discovery failed with status", discovery |-> NoDiscovery]
    ELSE IF ~r.parses
    THEN [err |-> "failed to parse OIDC discovery document", discovery |-> NoDiscovery]
    ELSE [err |-> "", discovery |-> [AuthorizationEndpoint |-> r.AuthorizationEndpoint,
                                     TokenEndpoint |-> r.TokenEndpoint]]

\* discoverOIDCEndpoints on the answer to its http.Get: (discovery, err).
discoverOIDCEndpoints(r) ==
    IF ~r.transport
    THEN [err |-> "failed to fetch OIDC discovery document", discovery |-> NoDiscovery]
    ELSE IF r.status # 200
    THEN [err |-> "OIDC discovery failed with status", discovery |-> NoDiscovery]
    ELSE IF ~r.parses
    THEN [err |-> "failed to parse OIDC discovery document", discovery |-> NoDiscovery]
    ELSE IF r.AuthorizationEndpoint = "" \/ r.TokenEndpoint = ""
    THEN [err |-> "OIDC discovery document missing required endpoints", discovery |-> NoDiscovery]
    ELSE [err |-> "", discovery |-> [AuthorizationEndpoint |-> r.AuthorizationEndpoint,
                                     TokenEndpoint |-> r.TokenEndpoint]]

\* providers.GetProvider: does the name resolve to a strategy?
GetProviderOk(name) == GetProvider(name).err = ""

\* What the token endpoint may answer to the exchange.
NoTokenResponse == TokenResponse("", EmptyString, 0, "", 0, 0)

ExchangeResponses ==
    { [transport |-> FALSE, status |-> 0,   parses |-> FALSE, body |-> NoTokenResponse],
      [transport |-> TRUE,  status |-> 400, parses |-> TRUE,  body |-> NoTokenResponse],
      [transport |-> TRUE,  status |-> 200, parses |-> FALSE, body |-> NoTokenResponse],
      [transport |-> TRUE,  status |-> 200, parses |-> TRUE,
       body |-> TokenResponse("abc", Opaque("xyz"), 3600, "", 0, 0)],
      [transport |-> TRUE,  status |-> 200, parses |-> TRUE,
       body |-> TokenResponse("abc", JWT(5000), 3600, "r1", 0, 0)] }

NoCode == [code |-> "", req |-> 0]
NoState == [state |-> "", req |-> 0]
NoResponse == [transport |-> FALSE, status |-> 0, parses |-> FALSE, body |-> NoTokenResponse]
NoFlow == [State |-> "", Discovery |-> NoDiscovery, made |-> FALSE]
NoRet == [code |-> "", err |-> ""]
IdleHandler == [pc |-> "idle", query |-> NoQuery]
ZeroCalls == [discovery |-> 0, authURL |-> 0, browser |-> 0, server |-> 0,
              listen |-> 0, post |-> 0, save |-> 0]
ZeroChans == [code |-> 0, err |-> 0, state |-> 0]

LoginConfigs ==
    { [OAuthProvider |-> p, OAuthUseRefresh |-> FALSE] : p \in {"oidc", "google", "nosuch"} }

InitLoginRest ==
    /\ discoveryResp = NoDiscoveryResponse
    /\ flow = NoFlow
    /\ codeChan = << >> /\ errChan = << >> /\ stateChan = << >>
    /\ srv = [inShutdown |-> FALSE, bound |-> FALSE]
    /\ listener = "none"
    /\ handler = [i \in 1..MaxRequests |-> IdleHandler]
    /\ code = NoCode
    /\ receivedState = NoState
    /\ resp = NoResponse
    /\ ret = NoRet
    /\ token = NoTokenResponse
    /\ authErr = ""
    /\ calls = ZeroCalls
    /\ wr = ZeroChans /\ rd = ZeroChans

InitLoginVars ==
    /\ pc = "Idle"
    /\ InitLoginRest

\* A record left by an earlier login, or none.
EarlierRecord ==
    [AccessToken |-> "old", IDToken |-> JWT(900), TokenType |-> "Bearer",
     ExpiresIn |-> 3600, ObtainedAt |-> 100, ExpiresAt |-> 3700,
     RefreshToken |-> "r0", RefreshExpiresIn |-> 0,
     RefreshExpiresAt |-> ZeroTime, Provider |-> "oidc"]

InitLogin ==
    /\ now = 1000
    /\ file \in {NoFile, FileOf(Marshal(EarlierRecord))}
    /\ config \in LoginConfigs
    /\ InitLoginVars
    /\ InitAuthVars
    /\ InitStoreVars
    /\ InitCallVars
    /\ InitBulkVars

\* NewOAuthFlow (oauth.go:58-86), called by Authenticate (217-221): draw the
\* verifier and the state (either draw may fail), fetch the discovery
\* document, resolve the provider.
NewOAuthFlow ==
    /\ pc = "Idle"
    /\ \/ \* rand.Read fails in GenerateCodeVerifier or generateState
          /\ pc' = "Failed"
          /\ authErr' = "failed to initialize OAuth flow"
          /\ UNCHANGED << flow, calls, discoveryResp >>
       \/ \E answer \in DiscoveryResponses :
            LET d == discoverOIDCEndpoints(answer)
            IN  /\ calls' = [calls EXCEPT !.discovery = @ + 1]
                /\ discoveryResp' = answer
                /\ IF d.err = "" /\ GetProviderOk(config.OAuthProvider)
                   THEN /\ flow' = [State |-> SessionState, Discovery |-> d.discovery, made |-> TRUE]
                        /\ pc' = "flow"
                        /\ UNCHANGED authErr
                   ELSE /\ pc' = "Failed"
                        /\ authErr' = "failed to initialize OAuth flow"
                        /\ UNCHANGED flow
    /\ UNCHANGED << now, file, config, codeChan, errChan, stateChan, srv, listener,
                    handler, code, receivedState, resp, ret, token, wr, rd >>
    /\ UNCHANGED << authVars, storeVars, call, bulk >>

\* Authenticate, oauth.go:223-233: build the authorization URL, print it and
\* try to open the browser; a browser that does not open is not fatal.
OpenBrowser ==
    /\ pc = "flow"
    /\ \E opened \in BOOLEAN :
         calls' = [calls EXCEPT !.authURL = @ + 1,
                                !.browser = @ + (IF opened THEN 1 ELSE 0)]
    /\ pc' = "startServer"
    /\ UNCHANGED << now, file, config, flow, codeChan, errChan, stateChan, srv,
                    listener, handler, code, receivedState, resp, ret, token, authErr, wr, rd >>
    /\ UNCHANGED << discoveryResp, authVars, storeVars, call, bulk >>

\* StartCallbackServer, oauth.go:112-154: make the channels and the server,
\* start the listener goroutine, register the deferred Shutdown.
StartCallbackServer ==
    /\ pc = "startServer"
    /\ codeChan' = << >> /\ errChan' = << >> /\ stateChan' = << >>
    /\ srv' = [inShutdown |-> FALSE, bound |-> FALSE]
    /\ listener' = "ready"
    /\ calls' = [calls EXCEPT !.server = @ + 1]
    /\ pc' = "select"
    /\ UNCHANGED << now, file, config, flow, handler, code, receivedState, resp, ret, token, authErr, wr, rd >>
    /\ UNCHANGED << discoveryResp, authVars, storeVars, call, bulk >>

\* The goroutine of oauth.go:148-152 calls srv.ListenAndServe. On a server
\* that is already shut down it returns http.ErrServerClosed at once; else it
\* binds the port, or fails to (the port is in use).
ListenAndServe ==
    /\ listener = "ready"
    /\ IF srv.inShutdown
       THEN /\ listener' = "done"
            /\ UNCHANGED << srv, calls >>
       ELSE \E bind \in BOOLEAN :
              /\ calls' = [calls EXCEPT !.listen = @ + 1]
              /\ IF bind
                 THEN /\ srv' = [srv EXCEPT !.bound = TRUE]
                      /\ listener' = "serving"
                 ELSE /\ listener' = "sendErr"
                      /\ UNCHANGED srv
    /\ UNCHANGED << now, file, config, pc, flow, codeChan, errChan, stateChan,
                    handler, code, receivedState, resp, ret, token, authErr, wr, rd >>
    /\ UNCHANGED << discoveryResp, authVars, storeVars, call, bulk >>

\* oauth.go:150: errChan <- err, for an error other than ErrServerClosed. The
\* send blocks while the channel is full.
ListenerSendErr ==
    /\ listener = "sendErr"
    /\ Len(errChan) < 1
    /\ errChan' = Append(errChan, [err |-> "listen", req |-> 0])
    /\ wr' = [wr EXCEPT !.err = @ + 1]
    /\ listener' = "done"
    /\ UNCHANGED << now, file, config, pc, flow, codeChan, stateChan, srv,
                    handler, code, receivedState, resp, ret, token, authErr, calls, rd >>
    /\ UNCHANGED << discoveryResp, authVars, storeVars, call, bulk >>

\* ListenAndServe returns ErrServerClosed once Shutdown closed the listener;
\* the goroutine then ends without a send (oauth.go:149).
ListenerClosed ==
    /\ listener = "serving"
    /\ srv.inShutdown
    /\ listener' = "done"
    /\ UNCHANGED << now, file, config, pc, flow, codeChan, errChan, stateChan, srv,
                    handler, code, receivedState, resp, ret, token, authErr, calls, wr, rd >>
    /\ UNCHANGED << discoveryResp, authVars, storeVars, call, bulk >>

\* A handler that looks for the code before it looks for the error.
HandlerEntryCodeFirst(q) ==
    IF q.code # "" THEN "sendState"
    ELSE IF q.error # "" THEN "sendOAuthErr"
    ELSE "sendNoCode"

\* Where the handler goes after reading the query (oauth.go:119-135).
HandlerEntry(q) ==
    IF q.error # "" THEN "sendOAuthErr"
    ELSE IF q.code = "" THEN "sendNoCode"
    ELSE "sendState"

\* A request reaches /callback while the listener serves: the server starts
\* the handler in a goroutine of its own (oauth.go:118-121). Requests are
\* numbered in their order of arrival.
Callback(i) ==
    /\ listener = "serving" /\ srv.bound /\ ~srv.inShutdown
    /\ handler[i].pc = "idle"
    /\ \A j \in 1..(i - 1) : handler[j].pc # "idle"
    /\ \E q \in Queries :
         handler' = [handler EXCEPT ![i] = [pc |-> HandlerEntry(q), query |-> q]]
    /\ UNCHANGED << now, file, config, pc, flow, codeChan, errChan, stateChan, srv,
                    listener, code, receivedState, resp, ret, token, authErr, calls, wr, rd >>
    /\ UNCHANGED << discoveryResp, authVars, storeVars, call, bulk >>

\* oauth.go:123-128 and 130-135: errChan <- ..., then the failure page.
HandlerSendErr(i) ==
    /\ handler[i].pc \in {"sendOAuthErr", "sendNoCode"}
    /\ Len(errChan) < 1
    /\ errChan' = Append(errChan,
                         [err |-> IF handler[i].pc = "sendOAuthErr" THEN "OAuth error"
                                  ELSE "no authorization code received",
                          req |-> i])
    /\ wr' = [wr EXCEPT !.err = @ + 1]
    /\ handler' = [handler EXCEPT ![i].pc = "done"]
    /\ UNCHANGED << now, file, config, pc, flow, codeChan, stateChan, srv, listener,
                    code, receivedState, resp, ret, token, authErr, calls, rd >>
    /\ UNCHANGED << discoveryResp, authVars, storeVars, call, bulk >>

\* A HandlerSendState on a state channel that buffers two values.
HandlerSendStateBuffered(i) ==
    /\ handler[i].pc = "sendState"
    /\ Len(stateChan) < 2
    /\ stateChan' = Append(stateChan, [state |-> handler[i].query.state, req |-> i])
    /\ wr' = [wr EXCEPT !.state = @ + 1]
    /\ handler' = [handler EXCEPT ![i].pc = "sendCode"]
    /\ UNCHANGED << now, file, config, pc, flow, codeChan, errChan, srv, listener,
                    code, receivedState, resp, ret, token, authErr, calls, rd >>
    /\ UNCHANGED << discoveryResp, authVars, storeVars, call, bulk >>

\* oauth.go:137: stateChan <- state.
HandlerSendState(i) ==
    /\ handler[i].pc = "sendState"
    /\ Len(stateChan) < 1
    /\ stateChan' = Append(stateChan, [state |-> handler[i].query.state, req |-> i])
    /\ wr' = [wr EXCEPT !.state = @ + 1]
    /\ handler' = [handler EXCEPT ![i].pc = "sendCode"]
    /\ UNCHANGED << now, file, config, pc, flow, codeChan, errChan, srv, listener,
                    code, receivedState, resp, ret, token, authErr, calls, rd >>
    /\ UNCHANGED << discoveryResp, authVars, storeVars, call, bulk >>

\* oauth.go:138-140: codeChan <- code, then the success page.
HandlerSendCode(i) ==
    /\ handler[i].pc = "sendCode"
    /\ Len(codeChan) < 1
    /\ codeChan' = Append(codeChan, [code |-> handler[i].query.code, req |-> i])
    /\ wr' = [wr EXCEPT !.code = @ + 1]
    /\ handler' = [handler EXCEPT ![i].pc = "done"]
    /\ UNCHANGED << now, file, config, pc, flow, stateChan, errChan, srv, listener,
                    code, receivedState, resp, ret, token, authErr, calls, rd >>
    /\ UNCHANGED << discoveryResp, authVars, storeVars, call, bulk >>

\* select, oauth.go:157: case code := <-codeChan.
SelectCode ==
    /\ pc = "select"
    /\ Len(codeChan) > 0
    /\ code' = Head(codeChan)
    /\ codeChan' = Tail(codeChan)
    /\ rd' = [rd EXCEPT !.code = @ + 1]
    /\ pc' = "receiveState"
    /\ UNCHANGED << now, file, config, flow, errChan, stateChan, srv, listener,
                    handler, receivedState, resp, ret, token, authErr, calls, wr >>
    /\ UNCHANGED << discoveryResp, authVars, storeVars, call, bulk >>

\* ReceiveState without the comparison of oauth.go:159-161.
ReceiveStateUnchecked ==
    /\ pc = "receiveState"
    /\ Len(stateChan) > 0
    /\ receivedState' = Head(stateChan)
    /\ stateChan' = Tail(stateChan)
    /\ rd' = [rd EXCEPT !.state = @ + 1]
    /\ ret' = [code |-> code.code, err |-> ""]
    /\ pc' = "shutdown"
    /\ UNCHANGED << now, file, config, flow, codeChan, errChan, srv, listener,
                    handler, code, resp, token, authErr, calls, wr >>
    /\ UNCHANGED << discoveryResp, authVars, storeVars, call, bulk >>

\* oauth.go:158-162: receivedState := <-stateChan, compared with f.State.
ReceiveState ==
    /\ pc = "receiveState"
    /\ Len(stateChan) > 0
    /\ receivedState' = Head(stateChan)
    /\ stateChan' = Tail(stateChan)
    /\ rd' = [rd EXCEPT !.state = @ + 1]
    /\ ret' = IF Head(stateChan).state # flow.State
              THEN [code |-> "", err |-> "state mismatch - possible CSRF attack"]
              ELSE [code |-> code.code, err |-> ""]
    /\ pc' = "shutdown"
    /\ UNCHANGED << now, file, config, flow, codeChan, errChan, srv, listener,
                    handler, code, resp, token, authErr, calls, wr >>
    /\ UNCHANGED << discoveryResp, authVars, storeVars, call, bulk >>

\* select, oauth.go:163-164: case err := <-errChan.
SelectErr ==
    /\ pc = "select"
    /\ Len(errChan) > 0
    /\ ret' = [code |-> "", err |-> Head(errChan).err]
    /\ errChan' = Tail(errChan)
    /\ rd' = [rd EXCEPT !.err = @ + 1]
    /\ pc' = "shutdown"
    /\ UNCHANGED << now, file, config, flow, codeChan, stateChan, srv, listener,
                    handler, code, receivedState, resp, token, authErr, calls, wr >>
    /\ UNCHANGED << discoveryResp, authVars, storeVars, call, bulk >>

\* select, oauth.go:165-166: case <-ctx.Done().
SelectCtxDone ==
    /\ pc = "select"
    /\ ret' = [code |-> "", err |-> "authentication timed out"]
    /\ pc' = "shutdown"
    /\ UNCHANGED << now, file, config, flow, codeChan, errChan, stateChan, srv,
                    listener, handler, code, receivedState, resp, token, authErr, calls, wr, rd >>
    /\ UNCHANGED << discoveryResp, authVars, storeVars, call, bulk >>

\* SelectTimer returning without the deferred Shutdown, as a cleanup written
\* into each branch and forgotten in this one would.
SelectTimerNoShutdown ==
    /\ pc = "select"
    /\ ret' = [code |-> "", err |-> "authentication timed out after 2 minutes"]
    /\ pc' = "shutdownWait"
    /\ UNCHANGED << now, file, config, flow, codeChan, errChan, stateChan, srv,
                    listener, handler, code, receivedState, resp, token, authErr, calls, wr, rd >>
    /\ UNCHANGED << discoveryResp, authVars, storeVars, call, bulk >>

\* select, oauth.go:167-168: case <-time.After(2 * time.Minute).
SelectTimer ==
    /\ pc = "select"
    /\ ret' = [code |-> "", err |-> "authentication timed out after 2 minutes"]
    /\ pc' = "shutdown"
    /\ UNCHANGED << now, file, config, flow, codeChan, errChan, stateChan, srv,
                    listener, handler, code, receivedState, resp, token, authErr, calls, wr, rd >>
    /\ UNCHANGED << discoveryResp, authVars, storeVars, call, bulk >>

\* A Shutdown that stops the server's accept loop and leaves the listener
\* open.
ShutdownKeepsListener ==
    /\ pc = "shutdown"
    /\ srv' = [srv EXCEPT !.inShutdown = TRUE]
    /\ pc' = "shutdownWait"
    /\ UNCHANGED << now, file, config, flow, codeChan, errChan, stateChan, listener,
                    handler, code, receivedState, resp, ret, token, authErr, calls, wr, rd >>
    /\ UNCHANGED << discoveryResp, authVars, storeVars, call, bulk >>

\* The deferred srv.Shutdown(context.Background()), oauth.go:154: the server
\* is marked shut down and its listener closed ...
Shutdown ==
    /\ pc = "shutdown"
    /\ srv' = [inShutdown |-> TRUE, bound |-> FALSE]
    /\ pc' = "shutdownWait"
    /\ UNCHANGED << now, file, config, flow, codeChan, errChan, stateChan, listener,
                    handler, code, receivedState, resp, ret, token, authErr, calls, wr, rd >>
    /\ UNCHANGED << discoveryResp, authVars, storeVars, call, bulk >>

\* Authenticate going on to the exchange whatever StartCallbackServer
\* returned (oauth.go:239-241 left out).
ShutdownReturnIgnoresErr ==
    /\ pc = "shutdownWait"
    /\ \A i \in 1..MaxRequests : handler[i].pc \in {"idle", "done"}
    /\ pc' = "exchange"
    /\ UNCHANGED << now, file, config, flow, codeChan, errChan, stateChan, srv,
                    listener, handler, code, receivedState, resp, ret, token, authErr, calls, wr, rd >>
    /\ UNCHANGED << discoveryResp, authVars, storeVars, call, bulk >>

\* ... and Shutdown then waits, without deadline, until no handler runs. With
\* that StartCallbackServer returns to Authenticate (oauth.go:238-241).
ShutdownReturn ==
    /\ pc = "shutdownWait"
    /\ \A i \in 1..MaxRequests : handler[i].pc \in {"idle", "done"}
    /\ IF ret.err # ""
       THEN /\ pc' = "Failed"
            /\ authErr' = "failed to receive authorization code"
       ELSE /\ pc' = "exchange"
            /\ UNCHANGED authErr
    /\ UNCHANGED << now, file, config, flow, codeChan, errChan, stateChan, srv,
                    listener, handler, code, receivedState, resp, ret, token, calls, wr, rd >>
    /\ UNCHANGED << discoveryResp, authVars, storeVars, call, bulk >>

\* An exchange that POSTs again after a failed answer.
ExchangeRetries ==
    /\ pc = "exchange"
    /\ calls' = [calls EXCEPT !.post = @ + 1]
    /\ \E r \in ExchangeResponses :
         /\ resp' = r
         /\ IF r.transport /\ r.status = 200 /\ r.parses
            THEN /\ token' = r.body
                 /\ pc' = "save"
            ELSE /\ pc' = "exchange"
                 /\ UNCHANGED token
    /\ UNCHANGED << now, file, config, flow, codeChan, errChan, stateChan, srv,
                    listener, handler, code, receivedState, ret, authErr, wr, rd >>
    /\ UNCHANGED << discoveryResp, authVars, storeVars, call, bulk >>

\* ExchangeCodeForToken, oauth.go:172-200, and Authenticate's check of its
\* error (245-248): one POST to the discovered token endpoint.
ExchangeCodeForToken ==
    /\ pc = "exchange"
    /\ calls' = [calls EXCEPT !.post = @ + 1]
    /\ \E r \in ExchangeResponses :
         /\ resp' = r
         /\ IF r.transport /\ r.status = 200 /\ r.parses
            THEN /\ token' = r.body
                 /\ pc' = "save"
                 /\ UNCHANGED authErr
            ELSE /\ pc' = "Failed"
                 /\ authErr' = "failed to exchange code for token"
                 /\ UNCHANGED token
    /\ UNCHANGED << now, file, config, flow, codeChan, errChan, stateChan, srv,
                    listener, handler, code, receivedState, ret, wr, rd >>
    /\ UNCHANGED << discoveryResp, authVars, storeVars, call, bulk >>

\* How a SaveToken call may end: done, or os.MkdirAll failed (as os.WriteFile
\* failing to open the file, it leaves the file alone), or os.WriteFile opened
\* and truncated the file and the write failed.
SaveOutcomes == {"ok", "mkdir", "write"}

\* The file after a SaveToken call that no other process interleaves with
\* (token.go:43-101), the clock reading t1, t2, t3 at its three time.Now().
SaveTokenFile(f, response, provider, outcome, t1, t2, t3) ==
    IF outcome = "mkdir" THEN f
    ELSE IF outcome = "write" THEN Truncate(f)
    ELSE WriteAt0(Truncate(f), Marshal(StoredOf(response, LoadToken(f), provider, t1, t2, t3)))

\* Authenticate's SaveToken(token, config.ConfigDir, config.OAuthProvider),
\* oauth.go:250-255.
SaveLoginToken ==
    /\ pc = "save"
    /\ calls' = [calls EXCEPT !.save = @ + 1]
    /\ \E outcome \in SaveOutcomes, t1, t2, t3 \in now..(now + MaxDrift) :
         /\ t1 <= t2 /\ t2 <= t3
         /\ now' = t3
         /\ file' = SaveTokenFile(file, token, config.OAuthProvider, outcome, t1, t2, t3)
         /\ IF outcome = "ok"
            THEN pc' = "Saved" /\ UNCHANGED authErr
            ELSE pc' = "Failed" /\ authErr' = "failed to save token"
    /\ UNCHANGED << config, flow, codeChan, errChan, stateChan, srv, listener,
                    handler, code, receivedState, resp, ret, token, wr, rd >>
    /\ UNCHANGED << discoveryResp, authVars, storeVars, call, bulk >>

NextLogin ==
    \/ NewOAuthFlow
    \/ OpenBrowser
    \/ StartCallbackServer
    \/ ListenAndServe
    \/ ListenerSendErr
    \/ ListenerClosed
    \/ \E i \in 1..MaxRequests : Callback(i)
    \/ \E i \in 1..MaxRequests : HandlerSendErr(i)
    \/ \E i \in 1..MaxRequests : HandlerSendState(i)
    \/ \E i \in 1..MaxRequests : HandlerSendCode(i)
    \/ SelectCode
    \/ ReceiveState
    \/ SelectErr
    \/ SelectCtxDone
    \/ SelectTimer
    \/ Shutdown
    \/ ShutdownReturn
    \/ ExchangeCodeForToken
    \/ SaveLoginToken

SpecLogin == InitLogin /\ [][NextLogin]_vars

\* ------------------------------------------------- AddAuth in jwt mode

\* The records the token file may hold when AddAuth runs: still valid,
\* expired with a refresh token, expired without one, without an ID token,
\* with an ID token that is no JWT.
AuthRecord(id, refresh) ==
    [AccessToken |-> "abc", IDToken |-> id, TokenType |-> "Bearer",
     ExpiresIn |-> 3600, ObtainedAt |-> 400, ExpiresAt |-> 4000,
     RefreshToken |-> refresh, RefreshExpiresIn |-> 0,
     RefreshExpiresAt |-> ZeroTime, Provider |-> "oidc"]

AuthFiles ==
    { NoFile, FileOf(<< >>) }
    \cup { FileOf(Marshal(AuthRecord(id, refresh))) :
             id \in {JWT(5000), JWT(1030), EmptyString, Opaque("xyz")},
             refresh \in {"", "r0"} }

\* What RefreshAccessToken may return: a fresh ID token, with or without a
\* rotated refresh token; no ID token; an ID token that is already due.
RefreshResponses ==
    { TokenResponse("abc2", JWT(6000), 3600, "", 0, 0),
      TokenResponse("abc2", JWT(6000), 3600, "r1", 0, 0),
      TokenResponse("abc2", EmptyString, 3600, "", 0, 0),
      TokenResponse("abc2", JWT(1030), 3600, "", 0, 0) }

InitAuthRest ==
    /\ now = 1000
    /\ file \in AuthFiles
    /\ config \in { [OAuthProvider |-> "oidc", OAuthUseRefresh |-> u] : u \in BOOLEAN }
    /\ impl \in {"cli", "client"}
    /\ authPc = "start"
    /\ refreshResponse = TokenResponse("", EmptyString, 0, "", 0, 0)
    /\ request = NoRequest
    /\ addAuthErr = ""
    /\ refreshCalls = 0
    /\ InitStoreVars
    /\ InitCallVars
    /\ InitBulkVars

InitAuth ==
    /\ InitLoginVars
    /\ InitAuthRest

\* AddAuth returns nil after req.Header.Set("Authorization", "Bearer "+token).
Attach(credential) ==
    /\ request' = [set |-> TRUE, bearer |-> credential]
    /\ authPc' = "done"
    /\ UNCHANGED addAuthErr

\* AddAuth returns the error and leaves the request as it is.
Fail(err) ==
    /\ addAuthErr' = err
    /\ authPc' = "done"
    /\ UNCHANGED request

\* A loadJWTToken that asks for a refresh before it looks at the stored
\* token's validity.
CLILoadJWTTokenEager ==
    /\ impl = "cli" /\ authPc = "start"
    /\ LET t == LoadToken(file)
       IN  IF t.err # "" THEN Fail("failed to load token")
           ELSE IF t.token.IDToken = EmptyString THEN Fail("no id_token present")
           ELSE IF config.OAuthUseRefresh /\ t.token.RefreshToken # ""
           THEN authPc' = "refresh" /\ UNCHANGED << request, addAuthErr >>
           ELSE IF IsValid(t.token, now) THEN Attach(t.token.IDToken)
           ELSE Fail("token expired and no refresh token available; please re-authenticate")
    /\ UNCHANGED << now, file, config, loginVars, impl, refreshResponse, refreshCalls, storeVars, call, bulk >>

\* CLIAuthProvider.loadJWTToken up to the refresh (lines 47-62, 73), and
\* AddAuth's use of its result (34-40).
CLILoadJWTToken ==
    /\ impl = "cli" /\ authPc = "start"
    /\ LET t == LoadToken(file)
       IN  IF t.err # "" THEN Fail("failed to load token")
           ELSE IF t.token.IDToken = EmptyString THEN Fail("no id_token present")
           ELSE IF IsValid(t.token, now) THEN Attach(t.token.IDToken)
           ELSE IF config.OAuthUseRefresh /\ t.token.RefreshToken # ""
           THEN authPc' = "refresh" /\ UNCHANGED << request, addAuthErr >>
           ELSE Fail("token expired and no refresh token available; please re-authenticate")
    /\ UNCHANGED << now, file, config, loginVars, impl, refreshResponse, refreshCalls, storeVars, call, bulk >>

\* A CLIRefresh that removes the token file when the refresh fails.
CLIRefreshDeletesToken ==
    /\ impl = "cli" /\ authPc = "refresh"
    /\ refreshCalls' = refreshCalls + 1
    /\ \/ Fail("failed to refresh access token") /\ UNCHANGED refreshResponse
          /\ file' = NoFile
       \/ \E r \in RefreshResponses :
            /\ refreshResponse' = r
            /\ authPc' = "save"
            /\ UNCHANGED << request, addAuthErr, file >>
    /\ UNCHANGED << now, config, loginVars, impl, storeVars, call, bulk >>

\* Lines 63-66: the call of RefreshAccessToken, which fails or returns a
\* token response.
CLIRefresh ==
    /\ impl = "cli" /\ authPc = "refresh"
    /\ refreshCalls' = refreshCalls + 1
    /\ \/ Fail("failed to refresh access token") /\ UNCHANGED refreshResponse
       \/ \E r \in RefreshResponses :
            /\ refreshResponse' = r
            /\ authPc' = "save"
            /\ UNCHANGED << request, addAuthErr >>
    /\ UNCHANGED << now, file, config, loginVars, impl, storeVars, call, bulk >>

\* Lines 67-71: SaveToken, then return refreshResponse.IDToken.
CLISaveRefreshed ==
    /\ impl = "cli" /\ authPc = "save"
    /\ \E outcome \in SaveOutcomes, t1, t2, t3 \in now..(now + MaxDrift) :
         /\ t1 <= t2 /\ t2 <= t3
         /\ now' = t3
         /\ file' = SaveTokenFile(file, refreshResponse, config.OAuthProvider, outcome, t1, t2, t3)
         /\ IF outcome = "ok" THEN Attach(refreshResponse.IDToken)
            ELSE Fail("failed to save refreshed token")
    /\ UNCHANGED << config, loginVars, impl, refreshResponse, refreshCalls, storeVars, call, bulk >>

\* Client.loadJWTToken up to the refresh (cache.go:214-233, 246), and
\* setAuthHeader's use of its result (200-207). auth.LoadConfig may fail, and
\* then no refresh is tried.
ClientLoadJWTToken ==
    /\ impl = "client" /\ authPc = "start"
    /\ LET t == LoadToken(file)
       IN  IF t.err # "" THEN Fail(t.err)
           ELSE IF t.token.IDToken = EmptyString THEN Fail("no id_token present")
           ELSE IF IsValid(t.token, now) THEN Attach(t.token.IDToken)
           ELSE \E cfgErr \in BOOLEAN :
                  IF ~cfgErr /\ config.OAuthUseRefresh /\ t.token.RefreshToken # ""
                  THEN authPc' = "refresh" /\ UNCHANGED << request, addAuthErr >>
                  ELSE Fail("token expired - run 'tomclient auth login' to re-authenticate")
    /\ UNCHANGED << now, file, config, loginVars, impl, refreshResponse, refreshCalls, storeVars, call, bulk >>

\* cache.go:234-235: the call of auth.RefreshAccessToken.
ClientRefresh ==
    /\ impl = "client" /\ authPc = "refresh"
    /\ refreshCalls' = refreshCalls + 1
    /\ \/ Fail("token expired - run 'tomclient auth login' to re-authenticate")
          /\ UNCHANGED refreshResponse
       \/ \E r \in RefreshResponses :
            /\ refreshResponse' = r
            /\ authPc' = "save"
            /\ UNCHANGED << request, addAuthErr >>
    /\ UNCHANGED << now, file, config, loginVars, impl, storeVars, call, bulk >>

\* cache.go:237: auth.SaveToken.
ClientSaveRefreshed ==
    /\ impl = "client" /\ authPc = "save"
    /\ \E outcome \in SaveOutcomes, t1, t2, t3 \in now..(now + MaxDrift) :
         /\ t1 <= t2 /\ t2 <= t3
         /\ now' = t3
         /\ file' = SaveTokenFile(file, refreshResponse, config.OAuthProvider, outcome, t1, t2, t3)
         /\ IF outcome = "ok" THEN authPc' = "reload" /\ UNCHANGED << request, addAuthErr >>
            ELSE Fail("token expired - run 'tomclient auth login' to re-authenticate")
    /\ UNCHANGED << config, loginVars, impl, refreshResponse, refreshCalls, storeVars, call, bulk >>

\* cache.go:239-246: load the record again and use it only if it is valid.
ClientReload ==
    /\ impl = "client" /\ authPc = "reload"
    /\ LET latest == LoadToken(file)
       IN  IF latest.err = "" /\ latest.token.IDToken # EmptyString /\ IsValid(latest.token, now)
           THEN Attach(latest.token.IDToken)
           ELSE Fail("token expired - run 'tomclient auth login' to re-authenticate")
    /\ UNCHANGED << now, file, config, loginVars, impl, refreshResponse, refreshCalls, storeVars, call, bulk >>

NextAuth ==
    \/ CLILoadJWTToken
    \/ CLIRefresh
    \/ CLISaveRefreshed
    \/ ClientLoadJWTToken
    \/ ClientRefresh
    \/ ClientSaveRefreshed
    \/ ClientReload

SpecAuth == InitAuth /\ [][NextAuth]_vars

\* ------------------------------------ a login or an AddAuth, and the file

\* Either a login attempt is made, or AddAuth is called in jwt mode.
InitLoginOrAuth ==
    \/ InitLogin
    \/ /\ pc = "none"
       /\ InitLoginRest
       /\ InitAuthRest

NextLoginOrAuth == NextLogin \/ NextAuth

SpecLoginOrAuth == InitLoginOrAuth /\ [][NextLoginOrAuth]_vars

\* ------------------------------------------- the token file, concurrently

\* The token responses the saving processes hold.
StoreResponses ==
    { TokenResponse("abc", JWT(5000), 3600, "", 0, 0),
      TokenResponse("abd", JWT(6000), 3600, "r1", 0, 0),
      TokenResponse("abe", JWT(7000), 3600, "r2", 600, 0) }

InitStore ==
    /\ now = 1000
    /\ file \in {NoFile, FileOf(Marshal(EarlierRecord))}
    /\ config = [OAuthProvider |-> "oidc", OAuthUseRefresh |-> TRUE]
    /\ InitLoginVars
    /\ InitAuthVars
    /\ InitStoreVars
    /\ InitCallVars
    /\ InitBulkVars

\* SaveToken in process p, token.go:43-93: LoadToken reads the file as it is,
\* the record is built and marshalled.
SaveTokenBuild(p) ==
    /\ proc[p].pc = "idle"
    /\ \E response \in StoreResponses, t1, t2, t3 \in now..(now + MaxDrift) :
         /\ t1 <= t2 /\ t2 <= t3
         /\ now' = t3
         /\ proc' = [proc EXCEPT ![p] =
                       [pc |-> "open", response |-> response, before |-> file,
                        clock |-> << t1, t2, t3 >>,
                        data |-> Marshal(StoredOf(response, LoadToken(file),
                                                  config.OAuthProvider, t1, t2, t3))]]
    /\ UNCHANGED << file, config, loginVars, authVars, call, bulk, observed, order, last >>

\* os.WriteFile, token.go:96: open(O_WRONLY|O_CREATE|O_TRUNC) empties the file.
SaveTokenOpen(p) ==
    /\ proc[p].pc = "open"
    /\ file' = Truncate(file)
    /\ proc' = [proc EXCEPT ![p].pc = "write"]
    /\ UNCHANGED << now, config, loginVars, authVars, call, bulk, observed, order, last >>

\* os.WriteFile, token.go:96-100: write the bytes at offset 0, close, return.
SaveTokenWrite(p) ==
    /\ proc[p].pc = "write"
    /\ file' = WriteAt0(file, proc[p].data)
    /\ proc' = [proc EXCEPT ![p].pc = "done"]
    /\ order' = Append(order, p)
    /\ UNCHANGED << now, config, loginVars, authVars, call, bulk, observed, last >>

\* LoadToken in a further process, token.go:103-120: os.ReadFile reads the
\* file as it is at that moment.
LoadTokenRead ==
    /\ observed' = [seen |-> TRUE, file |-> file]
    /\ UNCHANGED << now, file, config, loginVars, authVars, call, bulk, proc, order, last >>

NextStore ==
    \/ \E p \in Procs : SaveTokenBuild(p)
    \/ \E p \in Procs : SaveTokenOpen(p)
    \/ \E p \in Procs : SaveTokenWrite(p)
    \/ LoadTokenRead

SpecStore == InitStore /\ [][NextStore]_vars

\* ------------------------------------------- the token file, one process

\* The token responses SaveToken is called with.
TokenResponses ==
    { TokenResponse("abc", JWT(5000), 3600, refresh, life[1], life[2]) :
        refresh \in {"", "r1"}, life \in {<<0, 0>>, <<0, 900>>, <<600, 900>>} }
    \cup { TokenResponse("abc", JWT(5000), 3600, "", 0, -1),
           TokenResponse("abd", JWT(6000), 3600, "r2", 0, 0),
           TokenResponse("abe", EmptyString, 3600, "", 0, 0),
           TokenResponse("abc", Opaque("xyz"), 3600, "", 0, 0) }

\* The steps by which the clock advances between operations: a minute, an
\* hour less the buffer of IsValid, an hour.
Ticks == {60, 3540, 3600}

InitToken ==
    /\ now = 1000
    /\ file = NoFile
    /\ config = [OAuthProvider |-> "oidc", OAuthUseRefresh |-> TRUE]
    /\ InitLoginVars
    /\ InitAuthVars
    /\ InitStoreVars
    /\ InitCallVars
    /\ InitBulkVars

\* SaveToken(token, configDir, provider), token.go:43-101, with no other
\* process at the file.
SaveToken ==
    /\ last.n < MaxOps
    /\ \E response \in TokenResponses, outcome \in SaveOutcomes,
          t1, t2, t3 \in now..(now + MaxDrift) :
         /\ t1 <= t2 /\ t2 <= t3
         \* a failed call writes no record: only the time it returns matters
         /\ outcome # "ok" => (t1 = t3 /\ t2 = t3)
         \* token.go:71-72: the first reading is taken for a refresh lifetime only
         /\ RefreshLifetime(response) <= 0 => t1 = t2
         /\ now' = t3
         /\ file' = SaveTokenFile(file, response, config.OAuthProvider, outcome, t1, t2, t3)
         /\ last' = [op |-> "SaveToken", response |-> response, before |-> file,
                     start |-> now, outcome |-> outcome,
                     saved |-> IF outcome = "ok" THEN t3
                               ELSE IF outcome = "mkdir" THEN last.saved ELSE 0,
                     n |-> last.n + 1]
    /\ UNCHANGED << config, loginVars, authVars, call, bulk, proc, observed, order >>

\* DeleteToken, token.go:163-169: os.Remove, a missing file is no error; a
\* file that is there may fail to be removed, and then it stays.
DeleteToken ==
    /\ last.n < MaxOps
    /\ \/ /\ file' = NoFile
          /\ last' = [op |-> "DeleteToken", response |-> NoOp.response, before |-> file,
                      start |-> now, outcome |-> "ok", saved |-> 0, n |-> last.n + 1]
       \/ /\ file.exists
          /\ file' = file
          /\ last' = [op |-> "DeleteToken", response |-> NoOp.response, before |-> file,
                      start |-> now, outcome |-> "remove", saved |-> last.saved,
                      n |-> last.n + 1]
    /\ UNCHANGED << now, config, loginVars, authVars, call, bulk, proc, observed, order >>

\* Time passes between two operations.
Tick ==
    /\ last.n < MaxOps
    /\ \E d \in Ticks : now' = now + d
    /\ last' = [op |-> "Tick", response |-> NoOp.response, before |-> file,
                start |-> now, outcome |-> "ok", saved |-> last.saved, n |-> last.n + 1]
    /\ UNCHANGED << file, config, loginVars, authVars, call, bulk, proc, observed, order >>

NextToken ==
    \/ SaveToken
    \/ DeleteToken
    \/ Tick

SpecToken == InitToken /\ [][NextToken]_vars

\* ------------------------------------------------- the auth login command

\* A Config.Validate without the client-secret check of config.go:223-225.
ValidateNoSecretCheck(c) ==
    IF c.AuthMode = "none" THEN ""
    ELSE IF c.AuthMode = "api_key"
    THEN (IF c.APIKey = "" THEN "auth_mode is 'api_key' but TOM_API_KEY is not set" ELSE "")
    ELSE IF c.AuthMode = "jwt"
    THEN IF c.OAuthClientID = "" THEN "auth_mode is 'jwt' but TOM_OAUTH_CLIENT_ID is not set"
         ELSE IF c.OAuthDiscoveryURL = ""
         THEN "auth_mode is 'jwt' but TOM_OAUTH_DISCOVERY_URL is not set"
         ELSE IF GetProvider(c.OAuthProvider).err # "" THEN GetProvider(c.OAuthProvider).err
         ELSE ""
    ELSE "invalid auth_mode"

\* Config.Validate (config.go:187-232): the error, "" for nil.
Validate(c) ==
    IF c.AuthMode = "none" THEN ""
    ELSE IF c.AuthMode = "api_key"
    THEN (IF c.APIKey = "" THEN "auth_mode is 'api_key' but TOM_API_KEY is not set" ELSE "")
    ELSE IF c.AuthMode = "jwt"
    THEN IF c.OAuthClientID = "" THEN "auth_mode is 'jwt' but TOM_OAUTH_CLIENT_ID is not set"
         ELSE IF c.OAuthDiscoveryURL = ""
         THEN "auth_mode is 'jwt' but TOM_OAUTH_DISCOVERY_URL is not set"
         ELSE IF GetProvider(c.OAuthProvider).err # "" THEN GetProvider(c.OAuthProvider).err
         ELSE IF RequiresClientSecret(GetProvider(c.OAuthProvider).provider)
                 /\ c.OAuthClientSecret = ""
         THEN "OAuth provider requires client_secret but TOM_OAUTH_CLIENT_SECRET is not set"
         ELSE ""
    ELSE "invalid auth_mode"

\* A jwt configuration that is complete, for the oidc provider.
CmdConfig ==
    [AuthMode |-> "jwt", APIKey |-> "", OAuthClientID |-> "id",
     OAuthDiscoveryURL |-> "url", OAuthProvider |-> "oidc",
     OAuthClientSecret |-> "", OAuthUseRefresh |-> FALSE]

\* The configurations LoadConfig may hand to the command: complete ones for
\* oidc and google, and ones that miss a member or name no known provider or
\* another auth mode.
CmdConfigs ==
    { CmdConfig,
      [CmdConfig EXCEPT !.OAuthProvider = "google", !.OAuthClientSecret = "s"],
      [CmdConfig EXCEPT !.OAuthProvider = "google"],
      [CmdConfig EXCEPT !.OAuthProvider = "nosuch"],
      [CmdConfig EXCEPT !.OAuthClientID = ""],
      [CmdConfig EXCEPT !.OAuthDiscoveryURL = ""],
      [CmdConfig EXCEPT !.AuthMode = "none"],
      [CmdConfig EXCEPT !.AuthMode = "api_key", !.APIKey = "k"],
      [CmdConfig EXCEPT !.AuthMode = "api_key"],
      [CmdConfig EXCEPT !.AuthMode = "bogus"] }

InitCmd ==
    /\ now = 1000
    /\ file = NoFile
    /\ config \in CmdConfigs
    /\ pc = "cmd"
    /\ discoveryResp = NoDiscoveryResponse
    /\ flow = NoFlow
    /\ codeChan = << >> /\ errChan = << >> /\ stateChan = << >>
    /\ srv = [inShutdown |-> FALSE, bound |-> FALSE]
    /\ listener = "none"
    /\ handler = [i \in 1..MaxRequests |-> IdleHandler]
    /\ code = NoCode
    /\ receivedState = NoState
    /\ resp = NoResponse
    /\ ret = NoRet
    /\ token = NoTokenResponse
    /\ authErr = ""
    /\ calls = ZeroCalls
    /\ wr = ZeroChans /\ rd = ZeroChans
    /\ InitAuthVars
    /\ InitStoreVars
    /\ InitCallVars
    /\ InitBulkVars

\* authLoginCmd's RunE (cmd/auth.go:23-39): LoadConfig, which may fail,
\* Validate, the check of the auth mode, and then Authenticate.
authLoginCmd ==
    /\ pc = "cmd"
    /\ \E loaded \in BOOLEAN :
         IF ~loaded
         THEN pc' = "Failed" /\ authErr' = "failed to load config"
         ELSE IF Validate(config) # ""
         THEN pc' = "Failed" /\ authErr' = Validate(config)
         ELSE IF config.AuthMode # "jwt"
         THEN pc' = "Failed" /\ authErr' = "'auth login' requires auth_mode='jwt'"
         ELSE pc' = "Idle" /\ UNCHANGED authErr
    /\ UNCHANGED << now, file, config, discoveryResp, flow, codeChan, errChan, stateChan,
                    srv, listener, handler, code, receivedState, resp, ret, token,
                    calls, wr, rd >>
    /\ UNCHANGED << authVars, storeVars, call, bulk >>

NextCmd ==
    \/ authLoginCmd
    \/ NextLogin

SpecCmd == InitCmd /\ [][NextCmd]_vars

\* -------------------------------------- the library's functions on their own

\* The ID token strings IsValid is tried on: none, one segment, a payload
\* that is no base64url, one that is no JSON, one without exp (or with exp 0),
\* two segments with an exp, three segments with an exp ahead or past.
IDTokens ==
    { EmptyString,
      Opaque("xyz"),
      << Seg("hdr", TRUE, TRUE, 0), Seg("!!", FALSE, FALSE, 0) >>,
      << Seg("hdr", TRUE, TRUE, 0), Seg("bm90anNvbg", TRUE, FALSE, 0) >>,
      << Seg("hdr", TRUE, TRUE, 0), Seg("e30", TRUE, TRUE, 0), Seg("sig", TRUE, FALSE, 0) >>,
      << Seg("hdr", TRUE, TRUE, 0), Seg("claims", TRUE, TRUE, 5000) >>,
      JWT(5000),
      JWT(900) }

\* The moments the functions are called at: well before exp - 60 of JWT(5000),
\* one second before it, and at it.
Clocks == {1000, 4939, 4940}

\* The stored expiries: none, one that has passed, two that lie ahead.
StoredExpiries == {ZeroTime, 900, 4980, 9000}

ValidityRecords ==
    { [ZeroStoredToken EXCEPT !.AccessToken = "abc", !.IDToken = id, !.TokenType = "Bearer",
                              !.ExpiresIn = 3600, !.ExpiresAt = e] :
        id \in IDTokens, e \in StoredExpiries }

\* The records whose credential is read: with and without access token, with
\* and without ID token, of each provider.
CredentialRecords ==
    { [ZeroStoredToken EXCEPT !.AccessToken = access, !.IDToken = id, !.TokenType = "Bearer",
                              !.ExpiresIn = 3600, !.ObtainedAt = 900, !.ExpiresAt = 9000,
                              !.Provider = provider] :
        access \in {"", "abc"}, id \in {EmptyString, JWT(5000)},
        provider \in {"oidc", "google", "microsoft"} }

\* The provider names of a configuration that Validate accepts.
ProviderNames == {"oidc", "", "google", "microsoft"}

InitCalls ==
    /\ now \in Clocks
    /\ file = NoFile
    /\ config = [OAuthProvider |-> "oidc", OAuthUseRefresh |-> TRUE]
    /\ InitLoginVars
    /\ InitAuthVars
    /\ InitStoreVars
    /\ InitCallVars
    /\ InitBulkVars

\* t.IsValid() on a stored record, at the clock's time.
IsValidCall ==
    /\ call = NoCall
    /\ \E t \in ValidityRecords :
         call' = [fn |-> "IsValid", t |-> t, clock |-> now, result |-> IsValid(t, now)]
    /\ UNCHANGED << now, file, config, loginVars, authVars, storeVars, bulk >>

\* A record is in the token file and each place that attaches a bearer
\* credential reads it: auth's LoadToken and GetToken, tomapi's
\* loadStoredToken and GetToken, the jwt dispatcher's loadJWTToken.
GetTokenCall ==
    /\ call = NoCall
    /\ \E t \in CredentialRecords :
         LET f == FileOf(Marshal(t))
         IN  /\ file' = f
             /\ call' = [fn |-> "GetToken", t |-> t, clock |-> now,
                         auth |-> GetToken(LoadToken(f).token),
                         tomapi |-> storedToken_GetToken(loadStoredToken(f).token),
                         dispatcher |-> loadJWTTokenStored(f, now)]
    /\ UNCHANGED << now, config, loginVars, authVars, storeVars, bulk >>

\* GetProvider(name), then BuildTokenRequest on the strategy.
BuildTokenRequestCall ==
    /\ call = NoCall
    /\ \E name \in ProviderNames, c \in {"", "c"}, clientID \in {"", "id"},
          clientSecret \in {"", "s"} :
         LET p == GetProvider(name).provider
         IN  call' = [fn |-> "BuildTokenRequest", name |-> name, provider |-> p,
                      requires |-> RequiresClientSecret(p),
                      clientSecret |-> clientSecret,
                      result |-> BuildTokenRequest(p, c, "v", clientID, clientSecret, "uri")]
    /\ UNCHANGED << now, file, config, loginVars, authVars, storeVars, bulk >>

\* GetProvider(name), then BuildRefreshRequest on the strategy.
BuildRefreshRequestCall ==
    /\ call = NoCall
    /\ \E name \in ProviderNames, refreshToken \in {"", "r0"}, clientID \in {"", "id"},
          clientSecret \in {"", "s"} :
         LET p == GetProvider(name).provider
         IN  call' = [fn |-> "BuildRefreshRequest", name |-> name, provider |-> p,
                      requires |-> RequiresClientSecret(p),
                      clientSecret |-> clientSecret,
                      result |-> BuildRefreshRequest(p, refreshToken, clientID, clientSecret)]
    /\ UNCHANGED << now, file, config, loginVars, authVars, storeVars, bulk >>

\* The configurations of a login session, as LoadConfig leaves them: with
\* refresh asked for, the scopes of a provider other than google end in
\* offline_access.
SessionConfigs ==
    { [OAuthProvider |-> provider, OAuthUseRefresh |-> useRefresh,
       OAuthClientID |-> "id", OAuthClientSecret |-> "s", OAuthRedirectPort |-> port,
       OAuthScopes |-> IF useRefresh /\ provider # "google"
                       THEN "openid email profile offline_access"
                       ELSE "openid email profile"] :
        provider \in {"oidc", "google"}, useRefresh \in BOOLEAN, port \in {8899, 9000} }

\* The values GenerateCodeVerifier and generateState may draw.
Verifiers == {"v1", "v2"}
States == {SessionState, ForeignState}

\* NewOAuthFlow succeeding: a verifier and a state are drawn, the discovery
\* document names both endpoints, the provider resolves.
NewOAuthFlowCall ==
    /\ call = NoCall
    /\ \E cfg \in SessionConfigs, verifier \in Verifiers, state \in States,
          answer \in DiscoveryResponses :
         LET d == discoverOIDCEndpoints(answer)
         IN  /\ d.err = ""
             /\ GetProviderOk(cfg.OAuthProvider)
             /\ call' = [fn |-> "NewOAuthFlow",
                         flow |-> OAuthFlow(cfg, verifier, state, d.discovery)]
    /\ UNCHANGED << now, file, config, loginVars, authVars, storeVars, bulk >>

\* Authenticate's flow.GetAuthURL() on the flow it has made.
GetAuthURLCall ==
    /\ call.fn = "NewOAuthFlow"
    /\ call' = [fn |-> "GetAuthURL", flow |-> call.flow, url |-> GetAuthURL(call.flow)]
    /\ UNCHANGED << now, file, config, loginVars, authVars, storeVars, bulk >>

\* Authenticate's flow.ExchangeCodeForToken(code) on the same flow, for the
\* code the callback delivered: the form it posts.
ExchangeCodeForTokenCall ==
    /\ call.fn = "GetAuthURL"
    /\ \E c \in {"code", "code2"} :
         call' = [fn |-> "ExchangeCodeForToken", flow |-> call.flow, url |-> call.url,
                  data |-> TokenRequestOf(call.flow, c)]
    /\ UNCHANGED << now, file, config, loginVars, authVars, storeVars, bulk >>

\* http.Header.Set: the header's values are replaced by the one value.
HeaderSet(headers, name, value) ==
    { h \in headers : h[1] # name } \cup { <<name, value>> }

\* CLIAuthProvider.AddAuth in api_key mode: (err, the request's headers).
CLIAuthProvider_AddAuth(cfg, headers) ==
    IF cfg.APIKey = ""
    THEN [err |-> "auth_mode is 'api_key' but API key is not set", headers |-> headers]
    ELSE LET header == IF cfg.APIKeyHeader # "" THEN cfg.APIKeyHeader ELSE "X-API-Key"
         IN  [err |-> "", headers |-> HeaderSet(headers, header, cfg.APIKey)]

\* tomapi's APIKeyAuth.AddAuth.
APIKeyAuth_AddAuth(cfg, headers) ==
    IF cfg.APIKey = "" THEN [err |-> "API key is not set", headers |-> headers]
    ELSE IF cfg.APIKeyHeader = ""
    THEN [err |-> "API Key header is not set", headers |-> headers]
    ELSE [err |-> "", headers |-> HeaderSet(headers, cfg.APIKeyHeader, cfg.APIKey)]

\* tomapi's Client.setAuthHeader in api_key mode.
Client_setAuthHeader(cfg, headers) ==
    IF cfg.APIKey = ""
    THEN [err |-> "auth_mode is 'api_key' but TOM_API_KEY is not set", headers |-> headers]
    ELSE [err |-> "", headers |-> HeaderSet(headers, "X-API-Key", cfg.APIKey)]

\* The api_key configurations and the headers a request may already carry.
APIKeyConfigs ==
    { [AuthMode |-> "api_key", APIKey |-> key, APIKeyHeader |-> header] :
        key \in {"", "k"}, header \in {"", "X-API-Key", "X-Custom"} }

RequestHeaders == { {}, { <<"X-Custom", "old">> }, { <<"Accept", "application/json">> } }

\* AddAuth on a request in api_key mode, in each place that implements it.
AddAuthCall ==
    /\ call = NoCall
    /\ \E place \in {"CLIAuthProvider", "APIKeyAuth", "Client"}, cfg \in APIKeyConfigs,
          headers \in RequestHeaders :
         call' = [fn |-> "AddAuth", place |-> place, cfg |-> cfg, before |-> headers,
                  result |-> IF place = "CLIAuthProvider" THEN CLIAuthProvider_AddAuth(cfg, headers)
                             ELSE IF place = "APIKeyAuth" THEN APIKeyAuth_AddAuth(cfg, headers)
                             ELSE Client_setAuthHeader(cfg, headers)]
    /\ UNCHANGED << now, file, config, loginVars, authVars, storeVars, bulk >>

\* The Config that LoadConfig starts from (config.go:92-100).
DefaultConfig ==
    [Include |-> "", AuthMode |-> "none", APIKey |-> "", APIKeyHeader |-> "",
     OAuthProvider |-> "oidc", OAuthRedirectPort |-> 8899,
     OAuthScopes |-> << "openid", "email", "profile" >>, OAuthUseRefresh |-> FALSE,
     CacheEnabled |-> TRUE, CacheTTL |-> 300]

\* The json tags of Config's fields.
JsonTag ==
    [Include |-> "include", AuthMode |-> "auth_mode", APIKey |-> "api_key",
     APIKeyHeader |-> "api_key_header", OAuthProvider |-> "oauth_provider",
     OAuthRedirectPort |-> "oauth_redirect_port", OAuthScopes |-> "oauth_scopes",
     OAuthUseRefresh |-> "oauth_use_refresh", CacheEnabled |-> "cache_enabled",
     CacheTTL |-> "cache_ttl"]

\* json.Unmarshal(data, cfg) of a JSON object: the fields whose key the object
\* has are set, the others keep their value.
UnmarshalConfig(object, cfg) ==
    [field \in DOMAIN cfg |->
        IF JsonTag[field] \in DOMAIN object THEN object[JsonTag[field]] ELSE cfg[field]]

\* fmt.Sscanf(text, "%d", &field): the decimal texts of the environments
\* below scan, any other text leaves the field as it is.
Sscanf_d(text, field) ==
    IF text = "600" THEN 600
    ELSE IF text = "9000" THEN 9000
    ELSE field

\* config.go:175-182: with refresh on and a provider other than google, the
\* scopes (a list of words) get offline_access unless they have it.
EnsureOfflineAccess(cfg) ==
    IF /\ cfg.OAuthUseRefresh
       /\ cfg.OAuthProvider # "google"
       /\ \A i \in 1..Len(cfg.OAuthScopes) : cfg.OAuthScopes[i] # "offline_access"
    THEN [cfg EXCEPT !.OAuthScopes = Append(@, "offline_access")]
    ELSE cfg

\* config.go:130-173: the TOM_* variables that are set and not empty.
ApplyEnv(env, cfg) ==
    [cfg EXCEPT
       !.AuthMode = IF env.TOM_AUTH_MODE # "" THEN env.TOM_AUTH_MODE ELSE @,
       !.APIKey = IF env.TOM_API_KEY # "" THEN env.TOM_API_KEY ELSE @,
       !.OAuthProvider = IF env.TOM_OAUTH_PROVIDER # "" THEN env.TOM_OAUTH_PROVIDER ELSE @,
       !.OAuthRedirectPort = IF env.TOM_OAUTH_REDIRECT_PORT # ""
                             THEN Sscanf_d(env.TOM_OAUTH_REDIRECT_PORT, @) ELSE @,
       !.OAuthScopes = IF env.TOM_OAUTH_SCOPES # << >> THEN env.TOM_OAUTH_SCOPES ELSE @,
       !.OAuthUseRefresh = IF env.TOM_OAUTH_USE_REFRESH # ""
                           THEN env.TOM_OAUTH_USE_REFRESH \in {"1", "true", "TRUE"} ELSE @,
       !.CacheEnabled = IF env.TOM_CACHE_ENABLED # ""
                        THEN env.TOM_CACHE_ENABLED \notin {"0", "false", "FALSE"} ELSE @,
       !.CacheTTL = IF env.TOM_CACHE_TTL # "" THEN Sscanf_d(env.TOM_CACHE_TTL, @) ELSE @]

\* A file of the config directory: missing, or there with bytes that are a
\* JSON object or are not.
NoConfigFile == [exists |-> FALSE, parses |-> FALSE, object |-> << >>]
ConfigFileOf(object) == [exists |-> TRUE, parses |-> TRUE, object |-> object]
NotJSON == [exists |-> TRUE, parses |-> FALSE, object |-> << >>]

\* LoadConfig on config.json, the file its include names, and the
\* environment: (cfg, err).
LoadConfig(configFile, includeFile, env) ==
    IF configFile.exists /\ ~configFile.parses
    THEN [err |-> "failed to parse config file", cfg |-> DefaultConfig]
    ELSE LET c1 == IF configFile.exists THEN UnmarshalConfig(configFile.object, DefaultConfig)
                   ELSE DefaultConfig
         IN  IF c1.Include = "config.json"
             THEN [err |-> "config include cannot be 'config.json'", cfg |-> DefaultConfig]
             ELSE IF c1.Include # "" /\ ~includeFile.exists
             THEN [err |-> "failed to read included config file", cfg |-> DefaultConfig]
             ELSE IF c1.Include # "" /\ ~includeFile.parses
             THEN [err |-> "failed to parse included config file", cfg |-> DefaultConfig]
             ELSE LET c2 == IF c1.Include # "" THEN UnmarshalConfig(includeFile.object, c1)
                            ELSE c1
                  IN  [err |-> "", cfg |-> EnsureOfflineAccess(ApplyEnv(env, c2))]

\* The config.json files, the profile files an include may name, and the
\* environments LoadConfig is tried on.
ConfigFiles ==
    { NoConfigFile, NotJSON,
      ConfigFileOf([auth_mode |-> "api_key", api_key |-> "k", api_key_header |-> "X-Custom",
                    oauth_provider |-> "microsoft", oauth_redirect_port |-> 8000,
                    oauth_scopes |-> << "openid", "email" >>, oauth_use_refresh |-> TRUE,
                    cache_enabled |-> FALSE, cache_ttl |-> 120]),
      ConfigFileOf([include |-> "prod.json", cache_ttl |-> 120]),
      ConfigFileOf([include |-> "config.json"]) }

IncludeFiles ==
    { NoConfigFile, NotJSON,
      ConfigFileOf([auth_mode |-> "jwt", cache_enabled |-> FALSE, cache_ttl |-> 60]) }

Envs ==
    [TOM_AUTH_MODE : {"", "jwt"}, TOM_API_KEY : {"", "k2"},
     TOM_OAUTH_PROVIDER : {"", "google"},
     TOM_OAUTH_REDIRECT_PORT : {"", "9000"}, TOM_OAUTH_SCOPES : {<< >>, << "openid" >>},
     TOM_OAUTH_USE_REFRESH : {"", "true"}, TOM_CACHE_ENABLED : {"", "false", "true"},
     TOM_CACHE_TTL : {"", "600", "abc"}]

\* LoadConfig(configDir) with the directory and the environment as they are;
\* fileless is what the same environment gives without a config file.
LoadConfigCall ==
    /\ call = NoCall
    /\ \E configFile \in ConfigFiles, includeFile \in IncludeFiles, env \in Envs :
         call' = [fn |-> "LoadConfig", configFile |-> configFile,
                  includeFile |-> includeFile, env |-> env,
                  result |-> LoadConfig(configFile, includeFile, env),
                  fileless |-> LoadConfig(NoConfigFile, NoConfigFile, env)]
    /\ UNCHANGED << now, file, config, loginVars, authVars, storeVars, bulk >>

NextCalls ==
    \/ IsValidCall
    \/ GetTokenCall
    \/ BuildTokenRequestCall
    \/ BuildRefreshRequestCall
    \/ NewOAuthFlowCall
    \/ GetAuthURLCall
    \/ ExchangeCodeForTokenCall
    \/ AddAuthCall
    \/ LoadConfigCall

SpecCalls == InitCalls /\ [][NextCalls]_vars

\* ------------------------------------------- the bulk collection commands

\* The devices of a devices file. A hostname is modelled by the pattern
\* isRouter finds in it: a switch, a name without pattern, routers.
Devices == 1..MaxDevices

Hostname(d) == [n |-> d, pattern |-> IF d = 1 THEN "SW" ELSE IF d = 2 THEN "" ELSE "AS1"]

\* isRouter, collect-interfaces.go: a router pattern, else not a switch or
\* management name.
isRouter(hostname) ==
    IF hostname.pattern \in {"AS1", "AS2", "AS3", "AS4", "IR1", "IR2", "IR3",
                             "RR1", "RR2", "ASR", "CE1", "CE2"} THEN TRUE
    ELSE IF hostname.pattern \in {"SW", "MS"} THEN FALSE
    ELSE TRUE

\* The command line: bulk-inventory, or collect-interfaces with or without
\* --routers-only; a concurrency the flag validation lets through (>= 1).
InitBulk ==
    /\ now = 1000
    /\ file = NoFile
    /\ config = [OAuthProvider |-> "oidc", OAuthUseRefresh |-> TRUE]
    /\ InitLoginVars
    /\ InitAuthVars
    /\ InitStoreVars
    /\ InitCallVars
    /\ \E cmd \in {"bulk-inventory", "collect-interfaces"}, routersOnly \in BOOLEAN,
          concurrency \in 1..MaxConcurrency, input \in SUBSET Devices :
         /\ cmd = "bulk-inventory" => ~routersOnly
         /\ bulk = [cmd |-> cmd, routersOnly |-> routersOnly, concurrency |-> concurrency,
                    input |-> input, targets |-> {}, main |-> "start", spawned |-> {},
                    worker |-> [d \in Devices |-> "none"], sem |-> 0, wg |-> 0,
                    count |-> [d \in Devices |-> 0]]

\* The command up to its loop: read and parse the devices file, pick the
\* target devices, make the output directory. An error ends the process;
\* collect-interfaces returns when no device is left.
BulkStart ==
    /\ bulk.cmd # "none" /\ bulk.main = "start"
    /\ \/ bulk' = [bulk EXCEPT !.main = "exited"]
       \/ LET targets == IF bulk.routersOnly
                         THEN { d \in bulk.input : isRouter(Hostname(d)) }
                         ELSE bulk.input
          IN  bulk' = [bulk EXCEPT !.targets = targets,
                                   !.main = IF bulk.cmd = "collect-interfaces" /\ targets = {}
                                            THEN "returned" ELSE "loop"]
    /\ UNCHANGED << now, file, config, loginVars, authVars, storeVars, call >>

\* One round of the loop: wg.Add(1), go func(h).
Spawn(d) ==
    /\ bulk.cmd # "none" /\ bulk.main = "loop"
    /\ d \in bulk.targets \ bulk.spawned
    /\ bulk' = [bulk EXCEPT !.wg = @ + 1, !.spawned = @ \cup {d}, !.worker[d] = "acquire"]
    /\ UNCHANGED << now, file, config, loginVars, authVars, storeVars, call >>

\* The loop is through: the main goroutine goes on to wg.Wait().
LoopEnd ==
    /\ bulk.cmd # "none" /\ bulk.main = "loop"
    /\ bulk.spawned = bulk.targets
    /\ bulk' = [bulk EXCEPT !.main = "wait"]
    /\ UNCHANGED << now, file, config, loginVars, authVars, storeVars, call >>

\* A worker that starts on its device without the semaphore.
AcquireNoSemaphore(d) ==
    /\ bulk.cmd # "none" /\ bulk.worker[d] = "acquire"
    /\ bulk' = [bulk EXCEPT !.worker[d] = "process"]
    /\ UNCHANGED << now, file, config, loginVars, authVars, storeVars, call >>

\* sem <- struct{}{}: blocks while the channel holds concurrency values.
Acquire(d) ==
    /\ bulk.cmd # "none" /\ bulk.worker[d] = "acquire"
    /\ bulk.sem < bulk.concurrency
    /\ bulk' = [bulk EXCEPT !.sem = @ + 1, !.worker[d] = "process"]
    /\ UNCHANGED << now, file, config, loginVars, authVars, storeVars, call >>

\* processDevice / collectDeviceInterfaces: the request and the file, saved
\* or not, then the deferred wg.Done().
ProcessDevice(d) ==
    /\ bulk.cmd # "none" /\ bulk.worker[d] = "process"
    /\ bulk' = [bulk EXCEPT !.count[d] = @ + 1, !.wg = @ - 1, !.worker[d] = "release"]
    /\ UNCHANGED << now, file, config, loginVars, authVars, storeVars, call >>

\* <-sem, and the goroutine ends.
Release(d) ==
    /\ bulk.cmd # "none" /\ bulk.worker[d] = "release"
    /\ bulk' = [bulk EXCEPT !.sem = @ - 1, !.worker[d] = "exit"]
    /\ UNCHANGED << now, file, config, loginVars, authVars, storeVars, call >>

\* wg.Wait() returns when the counter is zero; the command prints that it is
\* done.
Wait ==
    /\ bulk.cmd # "none" /\ bulk.main = "wait"
    /\ bulk.wg = 0
    /\ bulk' = [bulk EXCEPT !.main = "completed"]
    /\ UNCHANGED << now, file, config, loginVars, authVars, storeVars, call >>

NextBulk ==
    \/ BulkStart
    \/ \E d \in Devices : Spawn(d)
    \/ LoopEnd
    \/ \E d \in Devices : Acquire(d)
    \/ \E d \in Devices : ProcessDevice(d)
    \/ \E d \in Devices : Release(d)
    \/ Wait

SpecBulk == InitBulk /\ [][NextBulk]_vars

\* The scheduling the runtime guarantees: the timers of the select fire, the
\* deferred Shutdown runs, and every goroutine that can take a step gets to.
SpecLoginFair ==
    /\ SpecLogin
    /\ WF_vars(SelectCtxDone \/ SelectTimer)
    /\ WF_vars(ReceiveState)
    /\ WF_vars(Shutdown)
    /\ WF_vars(ShutdownReturn)
    /\ WF_vars(ListenerClosed)

\* The same, and every handler goroutine whose send can proceed gets to send.
SpecLoginFairHandlers ==
    /\ SpecLoginFair
    /\ \A i \in 1..MaxRequests :
         /\ WF_vars(HandlerSendErr(i))
         /\ WF_vars(HandlerSendState(i))
         /\ WF_vars(HandlerSendCode(i))

\* ------------------------------------------------------ the login flow's claims

\* StartCallbackServer has returned to Authenticate.
Returned ==
    /\ calls.server > 0
    /\ pc \in {"exchange", "save", "Saved", "Failed"}

Timeouts == {"authentication timed out", "authentication timed out after 2 minutes"}

\* C1: whenever StartCallbackServer has returned, by whichever branch of the
\* select, the server is shut down and its listener no longer holds the port.
C1_ListenerClosedOnReturn ==
    Returned => (srv.inShutdown /\ ~srv.bound)

\* C1's case: the listener was bound, a request was served, the 2 minute timer
\* won the select and the call has returned.
C1_Witness ==
    /\ Returned
    /\ ret.err = "authentication timed out after 2 minutes"
    /\ calls.listen = 1 /\ listener = "done"
    /\ handler[1].pc = "done" /\ handler[1].query.error = ""
    /\ handler[1].query.code # ""

\* C2: once the select has taken the code of a request whose state is not the
\* session's, the attempt never gets to the exchange: no POST to the token
\* endpoint, no SaveToken, and after the state is compared the attempt is on
\* its way to Failed.
C2_StateMismatchFails ==
    (code.req # 0 /\ handler[code.req].query.state # flow.State) =>
        /\ calls.post = 0 /\ calls.save = 0
        /\ pc \in {"receiveState", "shutdown", "shutdownWait", "Failed"}
        /\ (pc # "receiveState" => ret.err = "state mismatch - possible CSRF attack")
        /\ (pc # "receiveState" => ret.code = "")

\* C2's case: a callback with a non-empty code and a foreign state was
\* received and the login has failed.
C2_Witness ==
    /\ pc = "Failed"
    /\ code.req # 0 /\ code.code # ""
    /\ handler[code.req].query.state = ForeignState
    /\ receivedState.state = ForeignState

NoRequestEver == \A i \in 1..MaxRequests : handler[i].pc = "idle"

\* C3: if the listener binds and no request ever reaches /callback, the
\* attempt ends, and stays, in Failed with a timeout error, without a POST to
\* the token endpoint and with the port released.
C3_TimeoutWithoutCallback ==
    ([]NoRequestEver /\ <>srv.bound) =>
        <>[](/\ pc = "Failed"
             /\ ret.err \in Timeouts
             /\ calls.post = 0
             /\ ~srv.bound)

\* C3's case: bound, never a request, timed out by the context, failed.
C3_Witness ==
    /\ pc = "Failed"
    /\ ret.err = "authentication timed out"
    /\ calls.listen = 1 /\ listener = "done" /\ wr.err = 0
    /\ NoRequestEver

\* The spec's states of an attempt.
Phase(p) ==
    IF p = "Idle" THEN "Idle"
    ELSE IF p \in {"flow", "startServer", "select", "receiveState", "shutdown", "shutdownWait"}
    THEN "AwaitingCode"
    ELSE IF p \in {"exchange", "save"} THEN "Exchanging"
    ELSE p

PhaseSteps ==
    { <<"Idle", "AwaitingCode">>, <<"Idle", "Failed">>,
      <<"AwaitingCode", "Exchanging">>, <<"AwaitingCode", "Failed">>,
      <<"Exchanging", "Saved">>, <<"Exchanging", "Failed">> }

\* C4: every step keeps the phase or moves it along Idle -> AwaitingCode ->
\* Exchanging -> Saved or into Failed; a POST to the token endpoint happens
\* only with the code of a request whose state matched the session's;
\* SaveToken is called only after a 200 answer that parsed; and in Saved and
\* in Failed nothing is fetched, bound, served, received, posted or saved any
\* more (the listener goroutine may still end).
C4_PhaseOrder ==
    [][ /\ (Phase(pc') = Phase(pc) \/ <<Phase(pc), Phase(pc')>> \in PhaseSteps)
        /\ (calls'.post > calls.post =>
              /\ code.req # 0 /\ code.code # ""
              /\ receivedState.req = code.req
              /\ handler[code.req].query.code = code.code
              /\ handler[code.req].query.state = flow.State)
        /\ (calls'.save > calls.save =>
              /\ calls.post = 1
              /\ resp.transport /\ resp.status = 200 /\ resp.parses
              /\ token = resp.body)
        /\ (pc \in {"Saved", "Failed"} =>
              /\ pc' = pc /\ calls' = calls /\ srv' = srv /\ file' = file
              /\ handler' = handler /\ rd' = rd)
      ]_vars

\* C4's case: an attempt that went all the way to Saved.
C4_Witness ==
    /\ pc = "Saved"
    /\ calls.post = 1 /\ calls.save = 1
    /\ file.exists

C6_ChannelsOneShot ==
    /\ wr.code <= 1 /\ wr.err <= 1 /\ wr.state <= 1
    /\ rd.code <= 1 /\ rd.err <= 1 /\ rd.state <= 1

\* The stored record as LoadToken finds it.
Stored == LoadToken(file)

\* C15: a login whose token endpoint answered 200 with access_token "abc",
\* id_token "xyz", token_type "Bearer", expires_in 3600 and that ended in
\* Saved has persisted a record whose usable credential is "xyz" and which
\* is valid.
C15_EndToEnd ==
    (/\ pc = "Saved"
     /\ token = TokenResponse("abc", Opaque("xyz"), 3600, "", 0, 0)) =>
        /\ Stored.err = ""
        /\ GetToken(Stored.token) = Opaque("xyz")
        /\ IsValid(Stored.token, now)

\* A discovery answer that must not start a flow.
BadDiscovery(r) ==
    \/ ~r.transport
    \/ r.status # 200
    \/ ~r.parses
    \/ r.AuthorizationEndpoint = ""
    \/ r.TokenEndpoint = ""

\* C17: after a discovery answer that is no 200, does not parse or lacks an
\* endpoint the attempt has failed, there is no flow, and no authorization
\* URL was built, no browser opened, no listener started or bound, no token
\* request sent and nothing saved.
C17_DiscoveryValidated ==
    (calls.discovery > 0 /\ BadDiscovery(discoveryResp)) =>
        /\ pc = "Failed"
        /\ authErr = "failed to initialize OAuth flow"
        /\ ~flow.made
        /\ calls = [ZeroCalls EXCEPT !.discovery = 1]
        /\ listener = "none" /\ ~srv.bound

\* C17's case: a 200 answer that parses and names no token endpoint.
C17_Witness ==
    /\ pc = "Failed"
    /\ calls.discovery = 1
    /\ discoveryResp.transport /\ discoveryResp.status = 200 /\ discoveryResp.parses
    /\ discoveryResp.AuthorizationEndpoint # ""
    /\ discoveryResp.TokenEndpoint = ""

\* The requests that have reached /callback.
Arrived == { i \in 1..MaxRequests : handler[i].pc # "idle" }

\* A request that must not yield a code: it carries an error, or no code.
Refused(i) == handler[i].query.error # "" \/ handler[i].query.code = ""

\* C18 as stated: an attempt that a request with an error parameter, or
\* without a code, has reached does not get past StartCallbackServer, and a
\* code is returned only if a request carried a code and no error.
C18_ErrorCallbackFails ==
    /\ (pc \in {"exchange", "save", "Saved"} => \A i \in Arrived : ~Refused(i))
    /\ (ret.code # "" => \E i \in Arrived : ~Refused(i))

\* C18, amended: a request with an error parameter, or without a code, never
\* delivers a state or a code, it only signals an error; when the select
\* receives an error signal StartCallbackServer returns that error and no
\* code, and the attempt fails; and a code that is returned is the code of a
\* request that carried no error parameter.
C18_ErrorCallback ==
    /\ \A i \in Arrived :
          Refused(i) =>
            /\ handler[i].pc \in {"sendOAuthErr", "sendNoCode", "done"}
            /\ code.req # i /\ receivedState.req # i
            /\ \A k \in 1..Len(codeChan) : codeChan[k].req # i
            /\ \A k \in 1..Len(stateChan) : stateChan[k].req # i
    /\ rd.err > 0 =>
          /\ ret.err \in {"OAuth error", "no authorization code received", "listen"}
          /\ ret.code = ""
          /\ pc \in {"shutdown", "shutdownWait", "Failed"}
    /\ ret.code # "" =>
          /\ code.req \in Arrived
          /\ ~Refused(code.req)
          /\ handler[code.req].query.code = ret.code
    /\ pc \in {"exchange", "save", "Saved"} => ret.code # ""

\* C18's case: a request that carried an error and a code was the one the
\* select heard of, and the attempt has failed.
C18_Witness ==
    /\ pc = "Failed"
    /\ ret.err = "OAuth error"
    /\ rd.err = 1
    /\ \E i \in Arrived : handler[i].query.error # "" /\ handler[i].query.code # ""
    /\ calls.post = 0

\* A configuration the command must refuse.
ConfigInvalid(c) ==
    \/ c.AuthMode # "jwt"
    \/ c.OAuthClientID = ""
    \/ c.OAuthDiscoveryURL = ""
    \/ c.OAuthProvider \notin {"oidc", "", "google", "microsoft"}
    \/ (c.OAuthProvider = "google" /\ c.OAuthClientSecret = "")

\* C19: with an invalid configuration the command has failed as soon as it
\* has looked at it, and then and ever after nothing was fetched, no
\* listener started or bound, no token request sent.
C19_ValidatedBeforeNetwork ==
    (ConfigInvalid(config) /\ pc # "cmd") =>
        /\ pc = "Failed"
        /\ authErr # ""
        /\ calls = ZeroCalls
        /\ discoveryResp = NoDiscoveryResponse
        /\ listener = "none" /\ ~srv.bound
        /\ ~file.exists

\* C19's case: google without a client secret, refused by Validate.
C19_Witness ==
    /\ pc = "Failed"
    /\ config.AuthMode = "jwt"
    /\ config.OAuthClientID # "" /\ config.OAuthDiscoveryURL # ""
    /\ config.OAuthProvider = "google" /\ config.OAuthClientSecret = ""
    /\ authErr = "OAuth provider requires client_secret but TOM_OAUTH_CLIENT_SECRET is not set"
    /\ calls = ZeroCalls

\* ---------------------------------------------------- the dispatcher's claims

\* A bearer credential that is valid now: its exp claim decodes and lies more
\* than the buffer ahead.
ValidCredential(credential) ==
    /\ credential # EmptyString
    /\ parseJWTExp(credential).ok
    /\ now < parseJWTExp(credential).exp - ExpiryBuffer

\* C7: RefreshAccessToken is called at most once per AddAuth, and a call is
\* made only when the stored record loads, carries an ID token, is not valid,
\* refresh usage is enabled and a refresh token is stored.
C7_OneRefresh ==
    /\ [](refreshCalls <= 1)
    /\ [][refreshCalls' # refreshCalls =>
            /\ refreshCalls = 0
            /\ Stored.err = ""
            /\ ~IsValid(Stored.token, now)
            /\ config.OAuthUseRefresh
            /\ Stored.token.RefreshToken # ""]_vars

\* C7's case: the one refresh was made and failed, and AddAuth is over.
C7_Witness ==
    /\ authPc = "done"
    /\ refreshCalls = 1
    /\ addAuthErr \in {"failed to refresh access token",
                       "token expired - run 'tomclient auth login' to re-authenticate"}

\* C8: when AddAuth is over, the request carries an Authorization header only
\* with a credential that is valid now, and otherwise AddAuth returned an
\* error.
C8_OnlyValidCredential ==
    authPc = "done" =>
        /\ (request.set => ValidCredential(request.bearer))
        /\ (~request.set => addAuthErr # "")
        /\ (request.set => addAuthErr = "")

\* ------------------------------------------------------- the store's claims

\* Bytes that are one complete record: the record the file held at the start,
\* or the record one SaveToken call marshalled.
CompleteRecord(data) ==
    \/ data = Marshal(EarlierRecord)
    \/ \E p \in Procs : proc[p].pc # "idle" /\ data = proc[p].data

\* C9: every LoadToken reads no file or one complete record, and once both
\* saves have returned the file holds the record of the one that returned
\* last.
C9_AtomicReplacement ==
    /\ (observed.seen /\ observed.file.exists) => CompleteRecord(observed.file.data)
    /\ (\A p \in Procs : proc[p].pc = "done") =>
          file = FileOf(proc[order[Len(order)]].data)

\* What the last operation, a successful SaveToken, loaded before it wrote.
Existing == LoadToken(last.before)

\* C10 as stated: a successful SaveToken of a response without refresh_token
\* on top of a stored record leaves refresh token and refresh expiry as they
\* were.
C10_CarryOverAlways ==
    (/\ last.op = "SaveToken" /\ last.outcome = "ok"
     /\ last.response.RefreshToken = ""
     /\ Existing.err = "") =>
        /\ Stored.err = ""
        /\ Stored.token.RefreshToken = Existing.token.RefreshToken
        /\ Stored.token.RefreshExpiresAt = Existing.token.RefreshExpiresAt

\* C10, amended: such a save always keeps the stored refresh token; it keeps
\* the refresh expiry when the response carries no positive refresh lifetime
\* and the stored record holds a refresh token.
C10_CarryOver ==
    (/\ last.op = "SaveToken" /\ last.outcome = "ok"
     /\ last.response.RefreshToken = ""
     /\ Existing.err = "") =>
        /\ Stored.err = ""
        /\ Stored.token.RefreshToken = Existing.token.RefreshToken
        /\ (RefreshLifetime(last.response) <= 0 /\ Existing.token.RefreshToken # "") =>
              Stored.token.RefreshExpiresAt = Existing.token.RefreshExpiresAt

\* C10's case: a stored refresh token with its expiry, set by an earlier
\* save, has survived a save whose response named neither.
C10_Witness ==
    /\ last.op = "SaveToken" /\ last.outcome = "ok"
    /\ last.response.RefreshToken = ""
    /\ RefreshLifetime(last.response) <= 0
    /\ Existing.err = ""
    /\ Existing.token.RefreshToken = "r1"
    /\ Existing.token.RefreshExpiresAt > ZeroTime
    /\ Stored.token.RefreshToken = "r1"
    /\ Stored.token.RefreshExpiresAt = Existing.token.RefreshExpiresAt
    /\ Stored.token.ObtainedAt > Existing.token.ObtainedAt

\* C11: the record a successful SaveToken wrote has
\* expires_at = obtained_at + expires_in, whatever the clock did meanwhile.
C11_ExpiresAtExact ==
    (last.op = "SaveToken" /\ last.outcome = "ok") =>
        /\ Stored.err = ""
        /\ Stored.token.ExpiresAt = Stored.token.ObtainedAt + Stored.token.ExpiresIn

\* C12 as stated: a record that stores a refresh token has the refresh expiry
\* of the record before it (the response names no refresh lifetime and the
\* refresh token is the one stored before) or a clock reading of the call
\* plus the response's refresh lifetime.
C12_TwoValues ==
    (/\ last.op = "SaveToken" /\ last.outcome = "ok"
     /\ Stored.err = "" /\ Stored.token.RefreshToken # "") =>
        \/ /\ RefreshLifetime(last.response) = 0
           /\ Existing.err = ""
           /\ Stored.token.RefreshToken = Existing.token.RefreshToken
           /\ Stored.token.RefreshExpiresAt = Existing.token.RefreshExpiresAt
        \/ /\ RefreshLifetime(last.response) # 0
           /\ Stored.token.RefreshExpiresAt - RefreshLifetime(last.response)
                 \in last.start..now

\* C12, amended: the refresh expiry written is one of three values. With a
\* positive refresh lifetime in the response it is a clock reading of the
\* call plus that lifetime; without one, and with the refresh token that was
\* stored before, it is the expiry stored before; in every other case (a
\* refresh token that was not stored before) it is the zero time, which
\* stands for an unknown expiry.
C12_ThreeValues ==
    (/\ last.op = "SaveToken" /\ last.outcome = "ok"
     /\ Stored.err = "" /\ Stored.token.RefreshToken # "") =>
        IF RefreshLifetime(last.response) > 0
        THEN /\ Stored.token.RefreshExpiresAt - RefreshLifetime(last.response)
                   \in last.start..now
             /\ Stored.token.RefreshExpiresAt <=
                   Stored.token.ObtainedAt + RefreshLifetime(last.response)
        ELSE IF Existing.err = "" /\ Stored.token.RefreshToken = Existing.token.RefreshToken
        THEN Stored.token.RefreshExpiresAt = Existing.token.RefreshExpiresAt
        ELSE Stored.token.RefreshExpiresAt = ZeroTime

\* C12's case: a rotated refresh token without a lifetime has replaced a
\* stored one that had an expiry, and its expiry is unknown.
C12_Witness ==
    /\ last.op = "SaveToken" /\ last.outcome = "ok"
    /\ RefreshLifetime(last.response) = 0
    /\ Existing.err = ""
    /\ Existing.token.RefreshToken = "r1"
    /\ Existing.token.RefreshExpiresAt > ZeroTime
    /\ Stored.token.RefreshToken = "r2"
    /\ Stored.token.RefreshExpiresAt = ZeroTime

\* The exp claim of an ID token decodes: two segments or more, the second
\* one base64url, JSON, with a non-zero exp.
Decodable(jwt) ==
    /\ Len(jwt) >= 2
    /\ jwt[2].b64 /\ jwt[2].json /\ jwt[2].exp # 0

\* The file holds the record of a SaveToken of a response with
\* expires_in = 3600 that returned at last.saved.
RoundTrip3600 ==
    /\ last.saved # 0
    /\ Stored.err = ""
    /\ Stored.token.ExpiresIn = 3600

\* C13 as stated: the loaded record is valid when the save returns and no
\* longer valid once the clock is past expires_at - 60, with or without an
\* ID token in the response.
C13_RoundTripAlways ==
    RoundTrip3600 =>
        /\ (now = last.saved => IsValid(Stored.token, now))
        /\ (now > Stored.token.ExpiresAt - ExpiryBuffer => ~IsValid(Stored.token, now))

\* C13, amended: for a response without id_token the loaded record is valid
\* exactly while the clock is before save time + 3600 - 60; for a response
\* with an id_token it is valid exactly while the token's exp claim decodes
\* and the clock is before exp - 60, whatever expires_at says.
C13_RoundTrip ==
    RoundTrip3600 =>
        IF Stored.token.IDToken = EmptyString
        THEN IsValid(Stored.token, now) <=> (now < last.saved + 3600 - ExpiryBuffer)
        ELSE IsValid(Stored.token, now) <=>
               /\ Decodable(Stored.token.IDToken)
               /\ now < Stored.token.IDToken[2].exp - ExpiryBuffer

\* C13's case: a record without ID token, saved and loaded, at the very
\* second its validity ends.
C13_Witness ==
    /\ RoundTrip3600
    /\ last.op = "Tick"
    /\ Stored.token.IDToken = EmptyString
    /\ now = Stored.token.ExpiresAt - ExpiryBuffer
    /\ ~IsValid(Stored.token, now)

\* ------------------------------------------------ the functions' claims

\* C14: for a record with an ID token, IsValid is true exactly when the exp
\* claim decodes and the clock is before exp - 60; the stored expires_at has
\* no say, so a record whose claim does not decode is invalid even with an
\* expires_at that lies ahead.
C14_IDTokenDecides ==
    (call.fn = "IsValid" /\ call.t.IDToken # EmptyString) =>
        call.result =
            (/\ Decodable(call.t.IDToken)
             /\ call.clock < call.t.IDToken[2].exp - ExpiryBuffer)

\* C14's case: an ID token whose payload is no JSON, in a record whose
\* stored expiry lies well ahead, is not valid.
C14_Witness ==
    /\ call.fn = "IsValid"
    /\ Len(call.t.IDToken) = 2
    /\ call.t.IDToken[2].b64 /\ ~call.t.IDToken[2].json
    /\ call.clock < call.t.ExpiresAt - ExpiryBuffer
    /\ call.result = FALSE

\* The providers whose records carry an ID token as the credential: all
\* three strategies work on an OIDC discovery document.
OIDCSemantics(provider) == provider \in {"oidc", "", "google", "microsoft"}

\* The spec's UsableCredential.
UsableCredential(t) ==
    IF OIDCSemantics(t.Provider) THEN t.IDToken
    ELSE IF t.AccessToken # "" THEN Opaque(t.AccessToken)
    ELSE t.IDToken

\* C16: the auth package's GetToken returns the usable credential of the
\* record, the tomapi token loader returns the same value, and so does the
\* jwt dispatcher whenever it returns one.
C16_SameCredential ==
    call.fn = "GetToken" =>
        /\ call.auth = UsableCredential(call.t)
        /\ call.tomapi = call.auth
        /\ (call.dispatcher.err = "" => call.dispatcher.token = call.auth)

\* The client_secret members of a request body.
SecretField(vals) == { pr \in vals : pr[1] = "client_secret" }

\* C20 as stated: google requires a client secret and its token request
\* always has a non-empty client_secret; oidc and microsoft send
\* client_secret, in token and refresh requests, exactly when the secret is
\* non-empty.
C20_GoogleSecretNonEmpty ==
    (call.fn \in {"BuildTokenRequest", "BuildRefreshRequest"}) =>
        IF call.provider.name = "google"
        THEN /\ call.requires
             /\ (call.fn = "BuildTokenRequest" =>
                   /\ SecretField(call.result) # {}
                   /\ \A pr \in SecretField(call.result) : pr[2] # "")
        ELSE /\ ~call.requires
             /\ (SecretField(call.result) # {}) <=> (call.clientSecret # "")

\* C20, amended: google requires a client secret and its token request
\* always has the client_secret member, holding the secret it was given, so
\* non-empty exactly when that is; oidc and microsoft send client_secret, in
\* token and refresh requests, exactly when the secret is non-empty.
C20_SecretField ==
    (call.fn \in {"BuildTokenRequest", "BuildRefreshRequest"}) =>
        IF call.provider.name = "google"
        THEN /\ call.requires
             /\ SecretField(call.result) = { <<"client_secret", call.clientSecret>> }
        ELSE /\ ~call.requires
             /\ SecretField(call.result) =
                  (IF call.clientSecret # "" THEN { <<"client_secret", call.clientSecret>> }
                   ELSE {})

\* C20's case: the oidc strategy, given no secret, builds a token request
\* without client_secret.
C20_Witness ==
    /\ call.fn = "BuildTokenRequest"
    /\ call.provider.name = "oidc"
    /\ call.clientSecret = ""
    /\ SecretField(call.result) = {}
    /\ <<"grant_type", "authorization_code">> \in call.result

\* C21: the authorization URL of a session has the discovered authorization
\* endpoint as base and carries response_type=code, client_id, the localhost
\* redirect_uri of the configured port, code_challenge, S256 as method, scope
\* and state, plus every parameter the provider strategy returns; for google
\* with refresh requested these are access_type=offline and prompt=consent.
AuthURLBasics ==
    call.fn = "GetAuthURL" =>
        /\ call.url.endpoint = call.flow.Discovery.AuthorizationEndpoint
        /\ { <<"response_type", "code">>,
             <<"client_id", call.flow.Config.OAuthClientID>>,
             <<"redirect_uri", RedirectURI(call.flow.Config.OAuthRedirectPort)>>,
             <<"code_challenge", GenerateCodeChallenge(call.flow.CodeVerifier)>>,
             <<"code_challenge_method", "S256">>,
             <<"scope", call.flow.Config.OAuthScopes>>,
             <<"state", call.flow.State>> } \subseteq call.url.query
        /\ AuthURLParams(call.flow.Provider) \subseteq call.url.query

C21_AuthURLParameters ==
    /\ AuthURLBasics
    /\ (/\ call.fn = "GetAuthURL"
        /\ call.flow.Config.OAuthProvider = "google"
        /\ call.flow.Config.OAuthUseRefresh)
       => { <<"access_type", "offline">>, <<"prompt", "consent">> } \subseteq call.url.query

\* C28: within a session the verifier of the token exchange is the one whose
\* challenge went into the authorization URL, the two redirect URIs are
\* equal, and the flow (verifier and state with it) stays what NewOAuthFlow
\* made it.
Value(vals, key) == CHOOSE v \in { pair[2] : pair \in { q \in vals : q[1] = key } } : TRUE

HasOne(vals, key) == Cardinality({ q \in vals : q[1] = key }) = 1

PKCEConsistent ==
    call.fn = "ExchangeCodeForToken" =>
        /\ HasOne(call.data, "code_verifier") /\ HasOne(call.url.query, "code_challenge")
        /\ HasOne(call.data, "redirect_uri") /\ HasOne(call.url.query, "redirect_uri")
        /\ Value(call.url.query, "code_challenge")
             = GenerateCodeChallenge(Value(call.data, "code_verifier"))
        /\ Value(call.url.query, "code_challenge_method") = "S256"
        /\ Value(call.data, "redirect_uri") = Value(call.url.query, "redirect_uri")
        /\ Value(call.url.query, "state") = call.flow.State
        /\ Value(call.data, "code_verifier") = call.flow.CodeVerifier

SessionStep ==
    /\ call.fn \in {"NewOAuthFlow", "GetAuthURL"}
    /\ call'.fn \in {"GetAuthURL", "ExchangeCodeForToken"}

C28_SessionConsistent ==
    /\ []PKCEConsistent
    /\ [][SessionStep => call'.flow = call.flow]_vars

C28_Witness ==
    /\ call.fn = "ExchangeCodeForToken"
    /\ call.flow.CodeVerifier = "v2"
    /\ call.flow.State = ForeignState
    /\ call.flow.Config.OAuthRedirectPort = 9000
    /\ <<"code_verifier", "v2">> \in call.data
    /\ <<"code_challenge", GenerateCodeChallenge("v2")>> \in call.url.query

\* C22: in api_key mode AddAuth sets the configured header to the configured
\* key, and fails without modifying the request if the key or the header
\* name is empty.
C22_APIKeyMode ==
    call.fn = "AddAuth" =>
        IF call.cfg.APIKey = "" \/ call.cfg.APIKeyHeader = ""
        THEN call.result.err # "" /\ call.result.headers = call.before
        ELSE /\ call.result.err = ""
             /\ call.result.headers = HeaderSet(call.before, call.cfg.APIKeyHeader, call.cfg.APIKey)

\* C23: DeleteToken is idempotent: a missing token file is no error,
\* deleting twice leaves what deleting once leaves, and after a DeleteToken
\* LoadToken fails with the not-authenticated error until the next
\* SaveToken that succeeds.
NotAuthenticated(f) == LoadToken(f).err = "not authenticated"

DeleteStep == last'.n = last.n + 1 /\ last'.op = "DeleteToken"

SaveOkStep == last'.n = last.n + 1 /\ last'.op = "SaveToken" /\ last'.outcome = "ok"

Deleted == last.op = "DeleteToken" /\ last.outcome = "ok"

DeleteAbsentOk ==
    /\ (DeleteStep /\ ~file.exists) => last'.outcome = "ok"
    /\ (DeleteStep /\ last'.outcome = "ok") => NotAuthenticated(file')
    /\ (DeleteStep /\ Deleted) => file' = file

C23_DeleteIdempotent ==
    [][/\ DeleteAbsentOk
       /\ (Deleted /\ ~SaveOkStep) => NotAuthenticated(file')]_vars

\* C24: LoadConfig resolves every setting with the precedence default <
\* config file (an included profile over the file that includes it) < TOM_*
\* environment variable: without file and environment CacheEnabled is true
\* and CacheTTL is 300, and a variable that is set and not empty always
\* overrides the file's value (TOM_CACHE_ENABLED=false, TOM_CACHE_TTL=600).
Loaded == call.fn = "LoadConfig" /\ call.result.err = ""

NoEnv ==
    [TOM_AUTH_MODE |-> "", TOM_API_KEY |-> "", TOM_OAUTH_PROVIDER |-> "",
     TOM_OAUTH_REDIRECT_PORT |-> "", TOM_OAUTH_SCOPES |-> << >>,
     TOM_OAUTH_USE_REFRESH |-> "", TOM_CACHE_ENABLED |-> "", TOM_CACHE_TTL |-> ""]

\* The value the files give a field: the included profile's, else
\* config.json's, else the default.
FileValue(field) ==
    LET tag == JsonTag[field]
        main == call.configFile
        inc == call.includeFile
    IN  IF main.exists /\ "include" \in DOMAIN main.object /\ tag \in DOMAIN inc.object
        THEN inc.object[tag]
        ELSE IF main.exists /\ tag \in DOMAIN main.object THEN main.object[tag]
        ELSE DefaultConfig[field]

BeginsWith(scopes, words) ==
    Len(scopes) >= Len(words) /\ SubSeq(scopes, 1, Len(words)) = words

DefaultsAndFile ==
    Loaded =>
        /\ (~call.configFile.exists /\ call.env = NoEnv) => call.result.cfg = DefaultConfig
        /\ call.env.TOM_AUTH_MODE = "" => call.result.cfg.AuthMode = FileValue("AuthMode")
        /\ call.env.TOM_API_KEY = "" => call.result.cfg.APIKey = FileValue("APIKey")
        /\ call.result.cfg.APIKeyHeader = FileValue("APIKeyHeader")
        /\ call.env.TOM_OAUTH_PROVIDER = ""
             => call.result.cfg.OAuthProvider = FileValue("OAuthProvider")
        /\ call.env.TOM_OAUTH_REDIRECT_PORT = ""
             => call.result.cfg.OAuthRedirectPort = FileValue("OAuthRedirectPort")
        /\ call.env.TOM_OAUTH_SCOPES = << >>
             => BeginsWith(call.result.cfg.OAuthScopes, FileValue("OAuthScopes"))
        /\ call.env.TOM_OAUTH_USE_REFRESH = ""
             => call.result.cfg.OAuthUseRefresh = FileValue("OAuthUseRefresh")
        /\ call.env.TOM_CACHE_ENABLED = ""
             => call.result.cfg.CacheEnabled = FileValue("CacheEnabled")
        /\ call.env.TOM_CACHE_TTL = "" => call.result.cfg.CacheTTL = FileValue("CacheTTL")

EnvOverStrings ==
    Loaded =>
        /\ call.env.TOM_AUTH_MODE # "" => call.result.cfg.AuthMode = call.env.TOM_AUTH_MODE
        /\ call.env.TOM_API_KEY # "" => call.result.cfg.APIKey = call.env.TOM_API_KEY
        /\ call.env.TOM_OAUTH_PROVIDER # ""
             => call.result.cfg.OAuthProvider = call.env.TOM_OAUTH_PROVIDER
        /\ call.env.TOM_OAUTH_SCOPES # << >>
             => BeginsWith(call.result.cfg.OAuthScopes, call.env.TOM_OAUTH_SCOPES)
        /\ call.env.TOM_OAUTH_USE_REFRESH = "true" => call.result.cfg.OAuthUseRefresh
        /\ call.env.TOM_CACHE_ENABLED = "false" => ~call.result.cfg.CacheEnabled
        /\ call.env.TOM_CACHE_ENABLED = "true" => call.result.cfg.CacheEnabled
        /\ call.env.TOM_CACHE_TTL = "600" => call.result.cfg.CacheTTL = 600
        /\ call.env.TOM_OAUTH_REDIRECT_PORT = "9000" => call.result.cfg.OAuthRedirectPort = 9000

\* With the variable set, the files have no say in the setting.
EnvOverNumbers ==
    Loaded =>
        /\ call.env.TOM_CACHE_TTL # "" => call.result.cfg.CacheTTL = call.fileless.cfg.CacheTTL
        /\ call.env.TOM_OAUTH_REDIRECT_PORT # ""
             => call.result.cfg.OAuthRedirectPort = call.fileless.cfg.OAuthRedirectPort

C24_Precedence == DefaultsAndFile /\ EnvOverStrings /\ EnvOverNumbers

\* C25: in a bulk collection command with concurrency N >= 1 at most N
\* device requests are in flight at any time, every device of the input is
\* processed exactly once, and completion is reported only after every
\* device's processing has finished.
InFlight == { d \in Devices : bulk.worker[d] = "process" }

BulkBounded ==
    /\ Cardinality(InFlight) <= bulk.concurrency
    /\ \A d \in Devices : bulk.count[d] <= 1

C25_EveryInputDevice ==
    /\ BulkBounded
    /\ bulk.main = "completed" =>
         \A d \in bulk.input : bulk.count[d] = 1 /\ bulk.worker[d] \in {"release", "exit"}

\* The same for the devices the command selects: all of the input, or with
\* --routers-only those that isRouter keeps; the others are never processed.
C25_EveryTargetDevice ==
    /\ BulkBounded
    /\ bulk.main = "completed" =>
         \A d \in bulk.targets : bulk.count[d] = 1 /\ bulk.worker[d] \in {"release", "exit"}
    /\ \A d \in Devices \ bulk.targets : bulk.count[d] = 0
    /\ bulk.main \notin {"start", "exited"} =>
         bulk.targets = IF bulk.routersOnly
                        THEN { d \in bulk.input : isRouter(Hostname(d)) } ELSE bulk.input

C25_Witness ==
    /\ bulk.concurrency = 2
    /\ Cardinality(bulk.targets) = 3
    /\ Cardinality(InFlight) = 2
    /\ \E d \in bulk.targets : bulk.worker[d] = "acquire"

\* C26: StartCallbackServer always eventually returns, whatever requests hit
\* /callback before and during shutdown: no handler stays blocked on a send
\* to a full channel and the deferred Shutdown always completes.
Blocked(i) ==
    \/ handler[i].pc \in {"sendOAuthErr", "sendNoCode"} /\ Len(errChan) = 1
    \/ handler[i].pc = "sendState" /\ Len(stateChan) = 1
    \/ handler[i].pc = "sendCode" /\ Len(codeChan) = 1

C26_AlwaysReturns ==
    /\ (pc = "select") ~> Returned
    /\ \A i \in 1..MaxRequests : ~<>[]Blocked(i)

\* C27: with several callback requests running concurrently, the state that
\* StartCallbackServer compares with the session state comes from the same
\* request as the code it then returns.
StateReceived == receivedState # NoState

C27_SameRequest ==
    StateReceived =>
        /\ code.req = receivedState.req
        /\ code.code = handler[code.req].query.code
        /\ receivedState.state = handler[code.req].query.state
        /\ ret.code # "" => /\ ret.code = handler[code.req].query.code
                            /\ handler[code.req].query.state = flow.State

\* C27's case: a code is returned while a second request with a code and a
\* foreign state has run beside the first.
C27_Witness ==
    /\ StateReceived
    /\ ret.code # ""
    /\ \E i \in 1..MaxRequests :
         /\ i # code.req
         /\ handler[i].pc \in {"sendState", "sendCode", "done"}
         /\ handler[i].query.code # ""
         /\ handler[i].query.error = ""
         /\ handler[i].query.state = ForeignState

\* C29: a login attempt that fails before its SaveToken (discovery, bind,
\* callback error, state mismatch, timeout, exchange answer) and a jwt AddAuth
\* whose refresh request fails leave the token file as it was: no step but
\* SaveToken touches the file, a login that failed for one of these reasons
\* has not called SaveToken, and AddAuth calls SaveToken only with the
\* response of a refresh that succeeded.
FailedBeforeSave == pc = "Failed" /\ authErr # "failed to save token"

C29_FailureKeepsFile ==
    /\ [][(pc # "save" /\ authPc # "save") => file' = file]_vars
    /\ [](FailedBeforeSave => calls.save = 0)
    /\ [][authPc' = "save" =>
            \/ authPc = "save"
            \/ authPc = "refresh" /\ refreshResponse' \in RefreshResponses]_vars

\* C29's case: the exchange was answered with a status other than 200 and
\* the record of the earlier login is still in the file.
C29_Witness ==
    /\ FailedBeforeSave
    /\ calls.post = 1
    /\ resp.transport /\ resp.status # 200
    /\ file = FileOf(Marshal(EarlierRecord))

\* ------------------------------------------ concurrent saves, carried over

\* The record the SaveToken call of process p builds on top of file f, with
\* the response and the clock readings of that call.
RecordOn(p, f) ==
    StoredOf(proc[p].response, LoadToken(f), config.OAuthProvider,
             proc[p].clock[1], proc[p].clock[2], proc[p].clock[3])

\* The record the file holds when the save of p runs to its end on file f and
\* the save of q runs after it.
OneAfterTheOther(p, q, f) == RecordOn(q, FileOf(Marshal(RecordOn(p, f))))

\* The file as it was before either save: the first SaveToken loads it, and
\* no later load finds it again (a save leaves an emptied or a written file).
FileAtStart ==
    IF \E p \in Procs : proc[p].pc # "idle" /\ proc[p].before = NoFile THEN NoFile
    ELSE FileOf(Marshal(EarlierRecord))

\* Both saves have returned.
BothSaved == \A p \in Procs : proc[p].pc = "done"

\* C30: once two concurrent SaveToken calls have both returned, the file holds
\* a record whose refresh token and refresh expiry are those the two saves
\* leave when one runs after the other, in one of the two orders.
C30_SerialisableCarryOver ==
    BothSaved =>
        /\ LoadToken(file).err = ""
        /\ \E p, q \in Procs :
             /\ p # q
             /\ LoadToken(file).token.RefreshToken =
                    OneAfterTheOther(p, q, FileAtStart).RefreshToken
             /\ LoadToken(file).token.RefreshExpiresAt =
                    OneAfterTheOther(p, q, FileAtStart).RefreshExpiresAt

\* The lost update: one save wrote a newly issued refresh token, the other
\* carried the old one forward, and the file ends with the old one.
C30_OldTokenReturns ==
    /\ BothSaved
    /\ LoadToken(file).err = ""
    /\ LoadToken(file).token.RefreshToken = EarlierRecord.RefreshToken
    /\ \E p \in Procs : proc[p].response.RefreshToken # ""

====
